---------------------------- MODULE Spec2Model ----------------------------
(***************************************************************************)
(* PIC readable-assembly translators (pic18_translator.py and              *)
(* pic18_reverse_translator.py).                                           *)
(*                                                                         *)
(* Texts are TLA+ strings, handled character by character.  A Python dict  *)
(* is a sequence of <<key, value>> pairs in insertion order, so that       *)
(* merging and the stable length sort see the order Python sees.           *)
(***************************************************************************)
EXTENDS Integers, Sequences, FiniteSets, TLC

\* PIC18 readable name -> standard mnemonic, English, in dict insertion order (pic18_translator.py:34-129)
INSTRUCTION_MAP ==
  << <<"add_w_to_f", "ADDWF">>,
     <<"add_w_to_f_with_carry", "ADDWFC">>,
     <<"and_w_with_f", "ANDWF">>,
     <<"clear_f", "CLRF">>,
     <<"complement_f", "COMF">>,
     <<"compare_f_skip_if_equal", "CPFSEQ">>,
     <<"compare_f_skip_if_greater", "CPFSGT">>,
     <<"compare_f_skip_if_less", "CPFSLT">>,
     <<"decrement_f", "DECF">>,
     <<"decrement_f_skip_if_zero", "DECFSZ">>,
     <<"decrement_f_skip_if_not_zero", "DCFSNZ">>,
     <<"increment_f", "INCF">>,
     <<"increment_f_skip_if_zero", "INCFSZ">>,
     <<"increment_f_skip_if_not_zero", "INFSNZ">>,
     <<"or_w_with_f", "IORWF">>,
     <<"move_f", "MOVF">>,
     <<"move_f_to_f", "MOVFF">>,
     <<"move_w_to_f", "MOVWF">>,
     <<"multiply_w_with_f", "MULWF">>,
     <<"negate_f", "NEGF">>,
     <<"rotate_left_f_through_carry", "RLCF">>,
     <<"rotate_left_f_no_carry", "RLNCF">>,
     <<"rotate_right_f_through_carry", "RRCF">>,
     <<"rotate_right_f_no_carry", "RRNCF">>,
     <<"set_f", "SETF">>,
     <<"subtract_f_from_w_with_borrow", "SUBFWB">>,
     <<"subtract_w_from_f", "SUBWF">>,
     <<"subtract_w_from_f_with_borrow", "SUBWFB">>,
     <<"swap_nibbles_f", "SWAPF">>,
     <<"test_f_skip_if_zero", "TSTFSZ">>,
     <<"xor_w_with_f", "XORWF">>,
     <<"bit_clear_f", "BCF">>,
     <<"bit_set_f", "BSF">>,
     <<"bit_test_f_skip_if_clear", "BTFSC">>,
     <<"bit_test_f_skip_if_set", "BTFSS">>,
     <<"bit_toggle_f", "BTG">>,
     <<"add_literal_to_w", "ADDLW">>,
     <<"and_literal_with_w", "ANDLW">>,
     <<"or_literal_with_w", "IORLW">>,
     <<"move_literal_to_bsr", "MOVLB">>,
     <<"move_literal_to_w", "MOVLW">>,
     <<"multiply_literal_with_w", "MULLW">>,
     <<"subtract_w_from_literal", "SUBLW">>,
     <<"xor_literal_with_w", "XORLW">>,
     <<"branch_if_carry", "BC">>,
     <<"branch_if_negative", "BN">>,
     <<"branch_if_not_carry", "BNC">>,
     <<"branch_if_not_negative", "BNN">>,
     <<"branch_if_not_overflow", "BNOV">>,
     <<"branch_if_not_zero", "BNZ">>,
     <<"branch_if_overflow", "BOV">>,
     <<"branch_always", "BRA">>,
     <<"branch_if_zero", "BZ">>,
     <<"call_subroutine", "CALL">>,
     <<"clear_watchdog_timer", "CLRWDT">>,
     <<"decimal_adjust_w", "DAW">>,
     <<"goto_address", "GOTO">>,
     <<"no_operation", "NOP">>,
     <<"pop_return_stack", "POP">>,
     <<"push_return_stack", "PUSH">>,
     <<"relative_call", "RCALL">>,
     <<"software_reset", "RESET">>,
     <<"return_from_interrupt", "RETFIE">>,
     <<"return_with_literal_in_w", "RETLW">>,
     <<"return_from_subroutine", "RETURN">>,
     <<"enter_sleep_mode", "SLEEP">>,
     <<"table_read", "TBLRD*">>,
     <<"table_read_post_increment", "TBLRD*+">>,
     <<"table_read_post_decrement", "TBLRD*-">>,
     <<"table_read_pre_increment", "TBLRD+*">>,
     <<"table_write", "TBLWT*">>,
     <<"table_write_post_increment", "TBLWT*+">>,
     <<"table_write_post_decrement", "TBLWT*-">>,
     <<"table_write_pre_increment", "TBLWT+*">>,
     <<"add_literal_to_fsr", "ADDFSR">>,
     <<"add_literal_to_fsr2_and_return", "ADDULNK">>,
     <<"call_subroutine_using_w", "CALLW">>,
     <<"move_indexed_to_f", "MOVSF">>,
     <<"move_indexed_to_indexed", "MOVSS">>,
     <<"push_literal", "PUSHL">>,
     <<"subtract_literal_from_fsr", "SUBFSR">>,
     <<"subtract_literal_from_fsr2_and_return", "SUBULNK">> >>

\* INSTRUCTION_MAP_PIC16 with the mnemonic of rotate_left_f copied to
\* rotate_right_f
INSTRUCTION_MAP_PIC16_rrf_as_rlf ==
  << <<"clear_w", "CLRW">>,
     <<"rotate_left_f", "RLF">>,
     <<"rotate_right_f", "RLF">>,
     <<"option_load", "OPTION">>,
     <<"load_tris", "TRIS">>,
     <<"add_w_to_f_with_carry_16", "ADDWFC">>,
     <<"subtract_w_from_f_with_borrow_16", "SUBWFB">>,
     <<"logical_shift_left_f", "LSLF">>,
     <<"logical_shift_right_f", "LSRF">>,
     <<"arithmetic_shift_right_f", "ASRF">>,
     <<"branch_relative", "BRA">>,
     <<"branch_relative_with_w", "BRW">>,
     <<"call_subroutine_with_w", "CALLW">>,
     <<"add_literal_to_fsr_16", "ADDFSR">>,
     <<"move_indirect_from_fsr", "MOVIW">>,
     <<"move_w_indirect_to_fsr", "MOVWI">>,
     <<"move_literal_to_bsr_16", "MOVLB">>,
     <<"move_literal_to_pclath", "MOVLP">>,
     <<"software_reset_16", "RESET">> >>

\* PIC16-only readable name -> standard mnemonic, English (pic18_translator.py:141-165)
INSTRUCTION_MAP_PIC16 ==
  << <<"clear_w", "CLRW">>,
     <<"rotate_left_f", "RLF">>,
     <<"rotate_right_f", "RRF">>,
     <<"option_load", "OPTION">>,
     <<"load_tris", "TRIS">>,
     <<"add_w_to_f_with_carry_16", "ADDWFC">>,
     <<"subtract_w_from_f_with_borrow_16", "SUBWFB">>,
     <<"logical_shift_left_f", "LSLF">>,
     <<"logical_shift_right_f", "LSRF">>,
     <<"arithmetic_shift_right_f", "ASRF">>,
     <<"branch_relative", "BRA">>,
     <<"branch_relative_with_w", "BRW">>,
     <<"call_subroutine_with_w", "CALLW">>,
     <<"add_literal_to_fsr_16", "ADDFSR">>,
     <<"move_indirect_from_fsr", "MOVIW">>,
     <<"move_w_indirect_to_fsr", "MOVWI">>,
     <<"move_literal_to_bsr_16", "MOVLB">>,
     <<"move_literal_to_pclath", "MOVLP">>,
     <<"software_reset_16", "RESET">> >>

\* PIC16-only readable name -> standard mnemonic, Slovenian (pic18_translator.py:170-194)
INSTRUCTION_MAP_PIC16_SI ==
  << <<"pocisti_w", "CLRW">>,
     <<"zavrti_levo_f", "RLF">>,
     <<"zavrti_desno_f", "RRF">>,
     <<"nalozi_opcijo", "OPTION">>,
     <<"nalozi_tris", "TRIS">>,
     <<"pristej_w_k_f_s_prenosom_16", "ADDWFC">>,
     <<"odstej_w_od_f_z_izposojo_16", "SUBWFB">>,
     <<"logicni_pomik_levo_f", "LSLF">>,
     <<"logicni_pomik_desno_f", "LSRF">>,
     <<"aritmeticni_pomik_desno_f", "ASRF">>,
     <<"vejitev_relativna", "BRA">>,
     <<"vejitev_relativna_z_w", "BRW">>,
     <<"klici_podprogram_z_w_16", "CALLW">>,
     <<"pristej_konstanto_k_fsr_16", "ADDFSR">>,
     <<"premakni_posredno_iz_fsr", "MOVIW">>,
     <<"premakni_w_posredno_v_fsr", "MOVWI">>,
     <<"premakni_konstanto_v_bsr_16", "MOVLB">>,
     <<"premakni_konstanto_v_pclath", "MOVLP">>,
     <<"programska_ponastavitev_16", "RESET">> >>

\* PIC18 readable name -> standard mnemonic, Slovenian (pic18_translator.py:199-294)
INSTRUCTION_MAP_SI ==
  << <<"pristej_w_k_f", "ADDWF">>,
     <<"pristej_w_k_f_s_prenosom", "ADDWFC">>,
     <<"in_w_z_f", "ANDWF">>,
     <<"pocisti_f", "CLRF">>,
     <<"komplementiraj_f", "COMF">>,
     <<"primerjaj_f_preskoci_ce_enako", "CPFSEQ">>,
     <<"primerjaj_f_preskoci_ce_vecje", "CPFSGT">>,
     <<"primerjaj_f_preskoci_ce_manjse", "CPFSLT">>,
     <<"zmanjsaj_f", "DECF">>,
     <<"zmanjsaj_f_preskoci_ce_nic", "DECFSZ">>,
     <<"zmanjsaj_f_preskoci_ce_ni_nic", "DCFSNZ">>,
     <<"povecaj_f", "INCF">>,
     <<"povecaj_f_preskoci_ce_nic", "INCFSZ">>,
     <<"povecaj_f_preskoci_ce_ni_nic", "INFSNZ">>,
     <<"ali_w_z_f", "IORWF">>,
     <<"premakni_f", "MOVF">>,
     <<"premakni_f_v_f", "MOVFF">>,
     <<"premakni_w_v_f", "MOVWF">>,
     <<"pomnozi_w_z_f", "MULWF">>,
     <<"negiraj_f", "NEGF">>,
     <<"zavrti_levo_f_skozi_prenos", "RLCF">>,
     <<"zavrti_levo_f_brez_prenosa", "RLNCF">>,
     <<"zavrti_desno_f_skozi_prenos", "RRCF">>,
     <<"zavrti_desno_f_brez_prenosa", "RRNCF">>,
     <<"nastavi_f", "SETF">>,
     <<"odstej_f_od_w_z_izposojo", "SUBFWB">>,
     <<"odstej_w_od_f", "SUBWF">>,
     <<"odstej_w_od_f_z_izposojo", "SUBWFB">>,
     <<"zamenjaj_polbajta_f", "SWAPF">>,
     <<"testiraj_f_preskoci_ce_nic", "TSTFSZ">>,
     <<"xali_w_z_f", "XORWF">>,
     <<"bit_pocisti_f", "BCF">>,
     <<"bit_nastavi_f", "BSF">>,
     <<"bit_testiraj_f_preskoci_ce_pociscen", "BTFSC">>,
     <<"bit_testiraj_f_preskoci_ce_nastavljen", "BTFSS">>,
     <<"bit_preklopi_f", "BTG">>,
     <<"pristej_konstanto_k_w", "ADDLW">>,
     <<"in_konstanto_z_w", "ANDLW">>,
     <<"ali_konstanto_z_w", "IORLW">>,
     <<"premakni_konstanto_v_bsr", "MOVLB">>,
     <<"premakni_konstanto_v_w", "MOVLW">>,
     <<"pomnozi_konstanto_z_w", "MULLW">>,
     <<"odstej_w_od_konstante", "SUBLW">>,
     <<"xali_konstanto_z_w", "XORLW">>,
     <<"vejitev_ce_prenos", "BC">>,
     <<"vejitev_ce_negativno", "BN">>,
     <<"vejitev_ce_ni_prenosa", "BNC">>,
     <<"vejitev_ce_ni_negativno", "BNN">>,
     <<"vejitev_ce_ni_prekoracitve", "BNOV">>,
     <<"vejitev_ce_ni_nic", "BNZ">>,
     <<"vejitev_ce_prekoracitev", "BOV">>,
     <<"vejitev_vedno", "BRA">>,
     <<"vejitev_ce_nic", "BZ">>,
     <<"klici_podprogram", "CALL">>,
     <<"pocisti_casovnik_psa", "CLRWDT">>,
     <<"decimalno_prilagodi_w", "DAW">>,
     <<"pojdi_na_naslov", "GOTO">>,
     <<"brez_operacije", "NOP">>,
     <<"odvzemi_iz_sklada", "POP">>,
     <<"potisni_na_sklad", "PUSH">>,
     <<"relativni_klic", "RCALL">>,
     <<"programska_ponastavitev", "RESET">>,
     <<"vrni_se_iz_prekinitve", "RETFIE">>,
     <<"vrni_se_s_konstanto_v_w", "RETLW">>,
     <<"vrni_se_iz_podprograma", "RETURN">>,
     <<"vstopi_v_spanje", "SLEEP">>,
     <<"beri_tabelo", "TBLRD*">>,
     <<"beri_tabelo_povecaj_po", "TBLRD*+">>,
     <<"beri_tabelo_zmanjsaj_po", "TBLRD*-">>,
     <<"beri_tabelo_povecaj_pred", "TBLRD+*">>,
     <<"pisi_tabelo", "TBLWT*">>,
     <<"pisi_tabelo_povecaj_po", "TBLWT*+">>,
     <<"pisi_tabelo_zmanjsaj_po", "TBLWT*-">>,
     <<"pisi_tabelo_povecaj_pred", "TBLWT+*">>,
     <<"pristej_konstanto_k_fsr", "ADDFSR">>,
     <<"pristej_konstanto_k_fsr2_in_vrni", "ADDULNK">>,
     <<"klici_podprogram_z_w", "CALLW">>,
     <<"premakni_indeksirano_v_f", "MOVSF">>,
     <<"premakni_indeksirano_v_indeksirano", "MOVSS">>,
     <<"potisni_konstanto", "PUSHL">>,
     <<"odstej_konstanto_od_fsr", "SUBFSR">>,
     <<"odstej_konstanto_od_fsr2_in_vrni", "SUBULNK">> >>

\* standard PIC18 mnemonic -> English readable name (pic18_reverse_translator.py:26-120)
REVERSE_MAP_EN ==
  << <<"ADDWF", "add_w_to_f">>,
     <<"ADDWFC", "add_w_to_f_with_carry">>,
     <<"ANDWF", "and_w_with_f">>,
     <<"CLRF", "clear_f">>,
     <<"COMF", "complement_f">>,
     <<"CPFSEQ", "compare_f_skip_if_equal">>,
     <<"CPFSGT", "compare_f_skip_if_greater">>,
     <<"CPFSLT", "compare_f_skip_if_less">>,
     <<"DECF", "decrement_f">>,
     <<"DECFSZ", "decrement_f_skip_if_zero">>,
     <<"DCFSNZ", "decrement_f_skip_if_not_zero">>,
     <<"INCF", "increment_f">>,
     <<"INCFSZ", "increment_f_skip_if_zero">>,
     <<"INFSNZ", "increment_f_skip_if_not_zero">>,
     <<"IORWF", "or_w_with_f">>,
     <<"MOVF", "move_f">>,
     <<"MOVFF", "move_f_to_f">>,
     <<"MOVWF", "move_w_to_f">>,
     <<"MULWF", "multiply_w_with_f">>,
     <<"NEGF", "negate_f">>,
     <<"RLCF", "rotate_left_f_through_carry">>,
     <<"RLNCF", "rotate_left_f_no_carry">>,
     <<"RRCF", "rotate_right_f_through_carry">>,
     <<"RRNCF", "rotate_right_f_no_carry">>,
     <<"SETF", "set_f">>,
     <<"SUBFWB", "subtract_f_from_w_with_borrow">>,
     <<"SUBWF", "subtract_w_from_f">>,
     <<"SUBWFB", "subtract_w_from_f_with_borrow">>,
     <<"SWAPF", "swap_nibbles_f">>,
     <<"TSTFSZ", "test_f_skip_if_zero">>,
     <<"XORWF", "xor_w_with_f">>,
     <<"BCF", "bit_clear_f">>,
     <<"BSF", "bit_set_f">>,
     <<"BTFSC", "bit_test_f_skip_if_clear">>,
     <<"BTFSS", "bit_test_f_skip_if_set">>,
     <<"BTG", "bit_toggle_f">>,
     <<"ADDLW", "add_literal_to_w">>,
     <<"ANDLW", "and_literal_with_w">>,
     <<"IORLW", "or_literal_with_w">>,
     <<"MOVLB", "move_literal_to_bsr">>,
     <<"MOVLW", "move_literal_to_w">>,
     <<"MULLW", "multiply_literal_with_w">>,
     <<"SUBLW", "subtract_w_from_literal">>,
     <<"XORLW", "xor_literal_with_w">>,
     <<"BC", "branch_if_carry">>,
     <<"BN", "branch_if_negative">>,
     <<"BNC", "branch_if_not_carry">>,
     <<"BNN", "branch_if_not_negative">>,
     <<"BNOV", "branch_if_not_overflow">>,
     <<"BNZ", "branch_if_not_zero">>,
     <<"BOV", "branch_if_overflow">>,
     <<"BRA", "branch_always">>,
     <<"BZ", "branch_if_zero">>,
     <<"CALL", "call_subroutine">>,
     <<"CLRWDT", "clear_watchdog_timer">>,
     <<"DAW", "decimal_adjust_w">>,
     <<"GOTO", "goto_address">>,
     <<"NOP", "no_operation">>,
     <<"POP", "pop_return_stack">>,
     <<"PUSH", "push_return_stack">>,
     <<"RCALL", "relative_call">>,
     <<"RESET", "software_reset">>,
     <<"RETFIE", "return_from_interrupt">>,
     <<"RETLW", "return_with_literal_in_w">>,
     <<"RETURN", "return_from_subroutine">>,
     <<"SLEEP", "enter_sleep_mode">>,
     <<"TBLRD*", "table_read">>,
     <<"TBLRD*+", "table_read_post_increment">>,
     <<"TBLRD*-", "table_read_post_decrement">>,
     <<"TBLRD+*", "table_read_pre_increment">>,
     <<"TBLWT*", "table_write">>,
     <<"TBLWT*+", "table_write_post_increment">>,
     <<"TBLWT*-", "table_write_post_decrement">>,
     <<"TBLWT+*", "table_write_pre_increment">>,
     <<"ADDFSR", "add_literal_to_fsr">>,
     <<"ADDULNK", "add_literal_to_fsr2_and_return">>,
     <<"CALLW", "call_subroutine_using_w">>,
     <<"MOVSF", "move_indexed_to_f">>,
     <<"MOVSS", "move_indexed_to_indexed">>,
     <<"PUSHL", "push_literal">>,
     <<"SUBFSR", "subtract_literal_from_fsr">>,
     <<"SUBULNK", "subtract_literal_from_fsr2_and_return">> >>

\* PIC16-only standard mnemonic -> English readable name (pic18_reverse_translator.py:125-139)
REVERSE_MAP_PIC16_EN ==
  << <<"CLRW", "clear_w">>,
     <<"RLF", "rotate_left_f">>,
     <<"RRF", "rotate_right_f">>,
     <<"OPTION", "option_load">>,
     <<"TRIS", "load_tris">>,
     <<"LSLF", "logical_shift_left_f">>,
     <<"LSRF", "logical_shift_right_f">>,
     <<"ASRF", "arithmetic_shift_right_f">>,
     <<"BRW", "branch_relative_with_w">>,
     <<"MOVIW", "move_indirect_from_fsr">>,
     <<"MOVWI", "move_w_indirect_to_fsr">>,
     <<"MOVLP", "move_literal_to_pclath">> >>

\* standard PIC18 mnemonic -> Slovenian readable name (pic18_reverse_translator.py:144-238)
REVERSE_MAP_SI ==
  << <<"ADDWF", "pristej_w_k_f">>,
     <<"ADDWFC", "pristej_w_k_f_s_prenosom">>,
     <<"ANDWF", "in_w_z_f">>,
     <<"CLRF", "pocisti_f">>,
     <<"COMF", "komplementiraj_f">>,
     <<"CPFSEQ", "primerjaj_f_preskoci_ce_enako">>,
     <<"CPFSGT", "primerjaj_f_preskoci_ce_vecje">>,
     <<"CPFSLT", "primerjaj_f_preskoci_ce_manjse">>,
     <<"DECF", "zmanjsaj_f">>,
     <<"DECFSZ", "zmanjsaj_f_preskoci_ce_nic">>,
     <<"DCFSNZ", "zmanjsaj_f_preskoci_ce_ni_nic">>,
     <<"INCF", "povecaj_f">>,
     <<"INCFSZ", "povecaj_f_preskoci_ce_nic">>,
     <<"INFSNZ", "povecaj_f_preskoci_ce_ni_nic">>,
     <<"IORWF", "ali_w_z_f">>,
     <<"MOVF", "premakni_f">>,
     <<"MOVFF", "premakni_f_v_f">>,
     <<"MOVWF", "premakni_w_v_f">>,
     <<"MULWF", "pomnozi_w_z_f">>,
     <<"NEGF", "negiraj_f">>,
     <<"RLCF", "zavrti_levo_f_skozi_prenos">>,
     <<"RLNCF", "zavrti_levo_f_brez_prenosa">>,
     <<"RRCF", "zavrti_desno_f_skozi_prenos">>,
     <<"RRNCF", "zavrti_desno_f_brez_prenosa">>,
     <<"SETF", "nastavi_f">>,
     <<"SUBFWB", "odstej_f_od_w_z_izposojo">>,
     <<"SUBWF", "odstej_w_od_f">>,
     <<"SUBWFB", "odstej_w_od_f_z_izposojo">>,
     <<"SWAPF", "zamenjaj_polbajta_f">>,
     <<"TSTFSZ", "testiraj_f_preskoci_ce_nic">>,
     <<"XORWF", "xali_w_z_f">>,
     <<"BCF", "bit_pocisti_f">>,
     <<"BSF", "bit_nastavi_f">>,
     <<"BTFSC", "bit_testiraj_f_preskoci_ce_pociscen">>,
     <<"BTFSS", "bit_testiraj_f_preskoci_ce_nastavljen">>,
     <<"BTG", "bit_preklopi_f">>,
     <<"ADDLW", "pristej_konstanto_k_w">>,
     <<"ANDLW", "in_konstanto_z_w">>,
     <<"IORLW", "ali_konstanto_z_w">>,
     <<"MOVLB", "premakni_konstanto_v_bsr">>,
     <<"MOVLW", "premakni_konstanto_v_w">>,
     <<"MULLW", "pomnozi_konstanto_z_w">>,
     <<"SUBLW", "odstej_w_od_konstante">>,
     <<"XORLW", "xali_konstanto_z_w">>,
     <<"BC", "vejitev_ce_prenos">>,
     <<"BN", "vejitev_ce_negativno">>,
     <<"BNC", "vejitev_ce_ni_prenosa">>,
     <<"BNN", "vejitev_ce_ni_negativno">>,
     <<"BNOV", "vejitev_ce_ni_prekoracitve">>,
     <<"BNZ", "vejitev_ce_ni_nic">>,
     <<"BOV", "vejitev_ce_prekoracitev">>,
     <<"BRA", "vejitev_vedno">>,
     <<"BZ", "vejitev_ce_nic">>,
     <<"CALL", "klici_podprogram">>,
     <<"CLRWDT", "pocisti_casovnik_psa">>,
     <<"DAW", "decimalno_prilagodi_w">>,
     <<"GOTO", "pojdi_na_naslov">>,
     <<"NOP", "brez_operacije">>,
     <<"POP", "odvzemi_iz_sklada">>,
     <<"PUSH", "potisni_na_sklad">>,
     <<"RCALL", "relativni_klic">>,
     <<"RESET", "programska_ponastavitev">>,
     <<"RETFIE", "vrni_se_iz_prekinitve">>,
     <<"RETLW", "vrni_se_s_konstanto_v_w">>,
     <<"RETURN", "vrni_se_iz_podprograma">>,
     <<"SLEEP", "vstopi_v_spanje">>,
     <<"TBLRD*", "beri_tabelo">>,
     <<"TBLRD*+", "beri_tabelo_povecaj_po">>,
     <<"TBLRD*-", "beri_tabelo_zmanjsaj_po">>,
     <<"TBLRD+*", "beri_tabelo_povecaj_pred">>,
     <<"TBLWT*", "pisi_tabelo">>,
     <<"TBLWT*+", "pisi_tabelo_povecaj_po">>,
     <<"TBLWT*-", "pisi_tabelo_zmanjsaj_po">>,
     <<"TBLWT+*", "pisi_tabelo_povecaj_pred">>,
     <<"ADDFSR", "pristej_konstanto_k_fsr">>,
     <<"ADDULNK", "pristej_konstanto_k_fsr2_in_vrni">>,
     <<"CALLW", "klici_podprogram_z_w">>,
     <<"MOVSF", "premakni_indeksirano_v_f">>,
     <<"MOVSS", "premakni_indeksirano_v_indeksirano">>,
     <<"PUSHL", "potisni_konstanto">>,
     <<"SUBFSR", "odstej_konstanto_od_fsr">>,
     <<"SUBULNK", "odstej_konstanto_od_fsr2_in_vrni">> >>

\* the Slovenian PIC16 reverse table without the entry of MOVLP
REVERSE_MAP_PIC16_SI_without_movlp ==
  << <<"CLRW", "pocisti_w">>,
     <<"RLF", "zavrti_levo_f">>,
     <<"RRF", "zavrti_desno_f">>,
     <<"OPTION", "nalozi_opcijo">>,
     <<"TRIS", "nalozi_tris">>,
     <<"LSLF", "logicni_pomik_levo_f">>,
     <<"LSRF", "logicni_pomik_desno_f">>,
     <<"ASRF", "aritmeticni_pomik_desno_f">>,
     <<"BRW", "vejitev_relativna_z_w">>,
     <<"MOVIW", "premakni_posredno_iz_fsr">>,
     <<"MOVWI", "premakni_w_posredno_v_fsr">> >>

\* the Slovenian PIC16 reverse table with the name of CLRF entered for CLRW
REVERSE_MAP_PIC16_SI_clrw_as_clrf ==
  << <<"CLRW", "pocisti_f">>,
     <<"RLF", "zavrti_levo_f">>,
     <<"RRF", "zavrti_desno_f">>,
     <<"OPTION", "nalozi_opcijo">>,
     <<"TRIS", "nalozi_tris">>,
     <<"LSLF", "logicni_pomik_levo_f">>,
     <<"LSRF", "logicni_pomik_desno_f">>,
     <<"ASRF", "aritmeticni_pomik_desno_f">>,
     <<"BRW", "vejitev_relativna_z_w">>,
     <<"MOVIW", "premakni_posredno_iz_fsr">>,
     <<"MOVWI", "premakni_w_posredno_v_fsr">>,
     <<"MOVLP", "premakni_konstanto_v_pclath">> >>

\* PIC16-only standard mnemonic -> Slovenian readable name (pic18_reverse_translator.py:243-257)
REVERSE_MAP_PIC16_SI ==
  << <<"CLRW", "pocisti_w">>,
     <<"RLF", "zavrti_levo_f">>,
     <<"RRF", "zavrti_desno_f">>,
     <<"OPTION", "nalozi_opcijo">>,
     <<"TRIS", "nalozi_tris">>,
     <<"LSLF", "logicni_pomik_levo_f">>,
     <<"LSRF", "logicni_pomik_desno_f">>,
     <<"ASRF", "aritmeticni_pomik_desno_f">>,
     <<"BRW", "vejitev_relativna_z_w">>,
     <<"MOVIW", "premakni_posredno_iz_fsr">>,
     <<"MOVWI", "premakni_w_posredno_v_fsr">>,
     <<"MOVLP", "premakni_konstanto_v_pclath">> >>

\* assembler directives / pseudo-ops that are not translated (pic18_reverse_translator.py:262-270)
DIRECTIVES ==
  { "LIST", "INCLUDE", "#INCLUDE", "CONFIG", "ORG", "EQU",
    "SET", "CONSTANT", "VARIABLE", "CBLOCK", "ENDC", "DB",
    "DW", "DE", "DT", "DATA", "RES", "FILL",
    "IF", "ELSE", "ENDIF", "IFDEF", "IFNDEF", "WHILE",
    "ENDW", "MACRO", "ENDM", "LOCAL", "EXITM", "EXPAND",
    "NOEXPAND", "MESSG", "ERROR", "ERRORLEVEL", "PAGE", "TITLE",
    "SUBTITLE", "SPACE", "NOLIST", "RADIX", "PROCESSOR", "END",
    "BANKSEL", "BANKISEL", "PAGESEL", "__CONFIG", "__IDLOCS", "__BADRAM",
    "__MAXRAM" }

-----------------------------------------------------------------------------
(* Python dict and str primitives used by the translators                  *)

\* dict.keys(): the keys in insertion order
DictKeys(d) == [i \in DOMAIN d |-> d[i][1]]

\* key in dict
DictHas(d, k) == \E i \in DOMAIN d : d[i][1] = k

\* dict.get(key, default)
DictGet(d, k, default) ==
  IF DictHas(d, k) THEN d[CHOOSE i \in DOMAIN d : d[i][1] = k][2] ELSE default

\* {**a, **b}: keys of a keep their position and take b's value when b has
\* the key too; the keys only b has follow in b's order
DictMerge(a, b) ==
  [i \in DOMAIN a |-> <<a[i][1], DictGet(b, a[i][1], a[i][2])>>]
    \o SelectSeq(b, LAMBDA p : ~DictHas(a, p[1]))

\* s[i] as a one-character string
At(s, i) == SubSeq(s, i, i)

\* the sequence seq with its elements computed, each once
Evaluated(seq) == SubSeq(seq, 1, Len(seq))

UpperLetters == "ABCDEFGHIJKLMNOPQRSTUVWXYZ"
LowerLetters == "abcdefghijklmnopqrstuvwxyz"
Digits == "0123456789"

CharsOf(s) == {At(s, i) : i \in 1..Len(s)}

\* Two characters outside ASCII that re.IGNORECASE matches with an ASCII
\* letter.  A TLA+ string holds ASCII only, so each is written as an ASCII
\* character that the explored texts use for nothing else:
\*   "~" is U+017F LATIN SMALL LETTER LONG S  (matches "s", upper() is "S",
\*       lower() is itself)
\*   "^" is U+212A KELVIN SIGN                (matches "k", lower() is "k",
\*       upper() is itself)
LongS == "~"
KelvinSign == "^"

\* regex \w on the modelled alphabet: letters, digits and underscore
WordChars ==
  CharsOf(UpperLetters) \cup CharsOf(LowerLetters) \cup CharsOf(Digits)
    \cup {"_", LongS, KelvinSign}

\* str.isspace() on the modelled alphabet
Whitespace == {" ", "\t", "\n", "\r", "\f"}

\* the line boundaries str.splitlines() knows, on the modelled alphabet
LineBreaks == {"\n", "\r", "\f"}

\* the case mappings of the modelled alphabet
LowerMap == [c \in CharsOf(UpperLetters) \cup {KelvinSign} |->
               IF c = KelvinSign THEN "k"
               ELSE At(LowerLetters, CHOOSE i \in 1..26 : At(UpperLetters, i) = c)]
UpperMap == [c \in CharsOf(LowerLetters) \cup {LongS} |->
               IF c = LongS THEN "S"
               ELSE At(UpperLetters, CHOOSE i \in 1..26 : At(LowerLetters, i) = c)]

\* the letter a character counts as under re.IGNORECASE
FoldMap == [c \in DOMAIN LowerMap \cup {LongS} |->
              IF c = LongS THEN "s" ELSE LowerMap[c]]

LowerChar(c) == IF c \in DOMAIN LowerMap THEN LowerMap[c] ELSE c

UpperChar(c) == IF c \in DOMAIN UpperMap THEN UpperMap[c] ELSE c

FoldChar(c) == IF c \in DOMAIN FoldMap THEN FoldMap[c] ELSE c

RECURSIVE StrFold(_)
\* the text as re.IGNORECASE compares it with the lower-cased alternatives
StrFold(s) ==
  IF s = "" THEN "" ELSE FoldChar(At(s, 1)) \o StrFold(SubSeq(s, 2, Len(s)))

RECURSIVE StrLower(_)
\* str.lower()
StrLower(s) ==
  IF s = "" THEN "" ELSE LowerChar(At(s, 1)) \o StrLower(SubSeq(s, 2, Len(s)))

RECURSIVE StrUpper(_)
\* str.upper()
StrUpper(s) ==
  IF s = "" THEN "" ELSE UpperChar(At(s, 1)) \o StrUpper(SubSeq(s, 2, Len(s)))

RECURSIVE RStrip(_, _)
\* str.rstrip(chars)
RStrip(s, chars) ==
  IF s # "" /\ At(s, Len(s)) \in chars THEN RStrip(SubSeq(s, 1, Len(s) - 1), chars) ELSE s

RECURSIVE LStrip(_, _)
\* str.lstrip(chars)
LStrip(s, chars) ==
  IF s # "" /\ At(s, 1) \in chars THEN LStrip(SubSeq(s, 2, Len(s)), chars) ELSE s

\* str.strip()
Strip(s) == LStrip(RStrip(s, Whitespace), Whitespace)

\* str.startswith / str.endswith
StartsWith(s, p) == Len(p) <= Len(s) /\ SubSeq(s, 1, Len(p)) = p
EndsWith(s, p) == Len(p) <= Len(s) /\ SubSeq(s, Len(s) - Len(p) + 1, Len(s)) = p

RECURSIVE SplitLinesFrom(_, _, _)
\* str.splitlines(): scan from position i, the current line starts at b.
\* "\r\n" is one boundary; the text after the last boundary is a line only
\* when it is not empty.
SplitLinesFrom(s, b, i) ==
  IF i > Len(s)
    THEN IF b > Len(s) THEN << >> ELSE << SubSeq(s, b, Len(s)) >>
    ELSE IF At(s, i) \in LineBreaks
      THEN LET n == IF At(s, i) = "\r" /\ i < Len(s) /\ At(s, i + 1) = "\n"
                      THEN i + 2 ELSE i + 1
           IN << SubSeq(s, b, i - 1) >> \o SplitLinesFrom(s, n, n)
      ELSE SplitLinesFrom(s, b, i + 1)

SplitLines(s) == SplitLinesFrom(s, 1, 1)

RECURSIVE StrJoin(_, _)
\* sep.join(parts)
StrJoin(sep, parts) ==
  IF parts = << >> THEN ""
  ELSE IF Len(parts) = 1 THEN parts[1]
  ELSE parts[1] \o sep \o StrJoin(sep, Tail(parts))

RECURSIVE SplitFrom(_, _, _)
\* str.split(): the maximal runs of non-whitespace characters
SplitFrom(s, b, i) ==
  IF i > Len(s)
    THEN IF b > Len(s) THEN << >> ELSE << SubSeq(s, b, Len(s)) >>
    ELSE IF At(s, i) \in Whitespace
      THEN (IF b < i THEN << SubSeq(s, b, i - 1) >> ELSE << >>)
             \o SplitFrom(s, i + 1, i + 1)
      ELSE SplitFrom(s, b, i + 1)

Split(s) == SplitFrom(s, 1, 1)

RECURSIVE SortedFrom(_, _)
\* sorted(keys, key=len, reverse=True): the sort is stable, so keys of one
\* length keep the order they come in
SortedFrom(keys, n) ==
  IF n = 0 THEN << >>
  ELSE SelectSeq(keys, LAMBDA k : Len(k) = n) \o SortedFrom(keys, n - 1)

\* the keys left in the order they are iterated in, the sort left out
SortedByLenDesc_unsorted(keys) == keys

SortedByLenDesc(keys) ==
  LET lens == {Len(keys[i]) : i \in DOMAIN keys}
  IN IF lens = {} THEN << >>
     ELSE SortedFrom(keys, CHOOSE n \in lens : \A m \in lens : m <= n)

-----------------------------------------------------------------------------
(* re: an alternation of escaped literals between (?<!\w) and (?!\w),      *)
(* compiled with re.IGNORECASE, and Pattern.sub                            *)

\* the alternative lkey (lower-cased) matches the lower-cased text at i and
\* is not followed by a word character
\* the alternative without the lookahead (?!\w)
AltMatches_no_lookahead(low, i, lkey) ==
  LET e == i + Len(lkey) - 1
  IN /\ e <= Len(low)
     /\ SubSeq(low, i, e) = lkey

AltMatches(low, i, lkey) ==
  LET e == i + Len(lkey) - 1
  IN /\ e <= Len(low)
     /\ SubSeq(low, i, e) = lkey
     /\ (e = Len(low) \/ At(low, e + 1) \notin WordChars)

\* re.compile of the alternation of the escaped keys, in the order given,
\* with re.IGNORECASE: the case-folded alternatives in pattern order, kept
\* per first character (an alternative can only match where its first
\* character stands)
ReCompile(keys) ==
  LET alts == [i \in DOMAIN keys |-> StrLower(keys[i])]
  IN [c \in {At(alts[i], 1) : i \in DOMAIN alts} |->
        SelectSeq(alts, LAMBDA k : At(k, 1) = c)]

\* the length of the first alternative, in pattern order, that matches at
\* i; 0 when none does
FirstAlt(low, i, re) ==
  IF At(low, i) \notin DOMAIN re THEN 0
  ELSE LET alts == re[At(low, i)]
           hits == {j \in DOMAIN alts : AltMatches(low, i, alts[j])}
       IN IF hits = {} THEN 0
          ELSE Len(alts[CHOOSE j \in hits : \A k \in hits : j <= k])

RECURSIVE ReScan(_, _, _, _)
\* the scan of Pattern.sub from position i: the text cut into the matches
\* (<<TRUE, matched text>>) and the characters between them (<<FALSE, c>>);
\* a match is the leftmost one not preceded by a word character, and the
\* scan resumes right after it
ReScan(text, low, i, re) ==
  IF i > Len(text) THEN << >>
  ELSE IF i > 1 /\ At(low, i - 1) \in WordChars
    THEN << <<FALSE, At(text, i)>> >> \o ReScan(text, low, i + 1, re)
    ELSE LET n == FirstAlt(low, i, re)
         IN IF n = 0
              THEN << <<FALSE, At(text, i)>> >> \o ReScan(text, low, i + 1, re)
              ELSE << <<TRUE, SubSeq(text, i, i + n - 1)>> >>
                     \o ReScan(text, low, i + n, re)

\* Pattern.sub(repl, text) up to the call of repl: the text in parts, each
\* match to be replaced by repl(match), the other parts kept as they are
ReSubParts(re, text) == ReScan(text, StrFold(text), 1, re)

-----------------------------------------------------------------------------
(* pic18_translator.py                                                     *)

INSTRUCTION_MAP_ALL ==
  DictMerge(DictMerge(DictMerge(INSTRUCTION_MAP, INSTRUCTION_MAP_SI),
                      INSTRUCTION_MAP_PIC16), INSTRUCTION_MAP_PIC16_SI)

SORTED_KEYS == SortedByLenDesc(DictKeys(INSTRUCTION_MAP_ALL))

MNEMONIC_RE == ReCompile(SORTED_KEYS)

\* the namespace of pic18_translator once its four tables are defined
translator_tables(pic18, pic18_si, pic16, pic16_si) ==
  [INSTRUCTION_MAP |-> pic18, INSTRUCTION_MAP_SI |-> pic18_si,
   INSTRUCTION_MAP_PIC16 |-> pic16, INSTRUCTION_MAP_PIC16_SI |-> pic16_si]

\* the merge with the last table left out
merge_all_pic16_si_left_out(g) ==
  DictMerge(DictMerge(g.INSTRUCTION_MAP, g.INSTRUCTION_MAP_SI), g.INSTRUCTION_MAP_PIC16)

\* {**INSTRUCTION_MAP, **INSTRUCTION_MAP_SI, **INSTRUCTION_MAP_PIC16,
\*  **INSTRUCTION_MAP_PIC16_SI} over the tables of a namespace
merge_all(g) ==
  DictMerge(DictMerge(DictMerge(g.INSTRUCTION_MAP, g.INSTRUCTION_MAP_SI),
                      g.INSTRUCTION_MAP_PIC16), g.INSTRUCTION_MAP_PIC16_SI)

\* the import with the matcher built from the keys of INSTRUCTION_MAP, not
\* of the merged map
import_translator_pic18_keys(g) ==
  LET all == merge_all(g)
  IN g @@ [INSTRUCTION_MAP_ALL |-> all,
           MNEMONIC_RE |-> ReCompile(SortedByLenDesc(DictKeys(g.INSTRUCTION_MAP)))]

\* the rest of the import of pic18_translator: the merged map and the
\* matcher are bound in the namespace that holds the four tables
import_translator(g) ==
  LET all == merge_all(g)
  IN g @@ [INSTRUCTION_MAP_ALL |-> all,
           MNEMONIC_RE |-> ReCompile(SortedByLenDesc(DictKeys(all)))]

\* the namespace of pic18_translator as shipped, imported
TRANSLATOR_GLOBALS ==
  import_translator(translator_tables(INSTRUCTION_MAP, INSTRUCTION_MAP_SI,
                                      INSTRUCTION_MAP_PIC16, INSTRUCTION_MAP_PIC16_SI))

\* raised by INSTRUCTION_MAP_ALL[...] on a missing key
KeyError == "<KeyError>"

\* the lookup with the matched text as written, not lower-cased
translate_line_replace_in_as_written(g, m) ==
  DictGet(g.INSTRUCTION_MAP_ALL, m, KeyError)

\* _replace of translate_line, INSTRUCTION_MAP_ALL read from the namespace g
translate_line_replace_in(g, m) ==
  DictGet(g.INSTRUCTION_MAP_ALL, StrLower(m), KeyError)

translate_line_replace(m) == translate_line_replace_in(TRANSLATOR_GLOBALS, m)

\* translate_line with the assignment of a literal to wreg turned into
\* MOVLW, the counterpart of an assignment syntax in the readable source
translate_line_in_with_assignment(g, line) ==
  LET stripped == RStrip(line, {"\n", "\r"})
      body == LStrip(stripped, Whitespace)
      indent == SubSeq(stripped, 1, Len(stripped) - Len(body))
  IN IF Strip(stripped) = "" \/ StartsWith(body, ";")
       THEN stripped
       ELSE IF StartsWith(body, "wreg = ")
         THEN indent \o "MOVLW " \o SubSeq(body, 8, Len(body))
         ELSE LET parts == ReSubParts(g.MNEMONIC_RE, stripped)
                  repl == Evaluated([n \in DOMAIN parts |->
                             IF parts[n][1] THEN translate_line_replace_in(g, parts[n][2])
                                            ELSE parts[n][2]])
              IN IF \E n \in DOMAIN parts : parts[n][1] /\ repl[n] = KeyError
                   THEN KeyError
                   ELSE StrJoin("", repl)

\* translate_line run in the namespace g: _MNEMONIC_RE and
\* INSTRUCTION_MAP_ALL are looked up in g when the line is translated; a
\* KeyError raised by _replace leaves the call
translate_line_in(g, line) ==
  LET stripped == RStrip(line, {"\n", "\r"})
  IN IF Strip(stripped) = "" \/ StartsWith(LStrip(stripped, Whitespace), ";")
       THEN stripped
       ELSE LET parts == ReSubParts(g.MNEMONIC_RE, stripped)
                repl == Evaluated([n \in DOMAIN parts |->
                           IF parts[n][1] THEN translate_line_replace_in(g, parts[n][2])
                                          ELSE parts[n][2]])
            IN IF \E n \in DOMAIN parts : parts[n][1] /\ repl[n] = KeyError
                 THEN KeyError
                 ELSE StrJoin("", repl)

\* translate_line without the fast path for blank and comment-only lines
translate_line_no_fast_path(line) ==
  LET stripped == RStrip(line, {"\n", "\r"})
      parts == ReSubParts(MNEMONIC_RE, stripped)
  IN StrJoin("", [n \in DOMAIN parts |->
                    IF parts[n][1] THEN translate_line_replace(parts[n][2])
                                   ELSE parts[n][2]])

translate_line(line) == translate_line_in(TRANSLATOR_GLOBALS, line)

\* translate with the lines joined by the platform's "\r\n"
translate_crlf(source) ==
  LET lines == SplitLines(source)
  IN StrJoin("\r\n", [i \in DOMAIN lines |-> translate_line(lines[i])])

\* translate with a line terminator after the last line as well
translate_with_final_newline(source) ==
  LET lines == SplitLines(source)
      outs == Evaluated([i \in DOMAIN lines |-> translate_line(lines[i])])
  IN IF \E i \in DOMAIN lines : outs[i] = KeyError THEN KeyError
     ELSE StrJoin("\n", outs) \o "\n"

translate(source) ==
  LET lines == SplitLines(source)
      outs == Evaluated([i \in DOMAIN lines |-> translate_line(lines[i])])
  IN IF \E i \in DOMAIN lines : outs[i] = KeyError THEN KeyError
     ELSE StrJoin("\n", outs)

-----------------------------------------------------------------------------
(* pic18_reverse_translator.py                                             *)

\* The iteration orders of set(...) | set(...) that are modelled: Python
\* fixes none, the string hash seed of the process decides.
SetOrders == {"insertion", "reversed"}

Reverse(seq) == [i \in DOMAIN seq |-> seq[Len(seq) + 1 - i]]

\* all_mnemonics taken from REVERSE_MAP_PIC16_EN alone, the union with
\* REVERSE_MAP_EN left out
all_mnemonics_pic16_only(order) ==
  IF order = "insertion" THEN DictKeys(REVERSE_MAP_PIC16_EN)
  ELSE Reverse(DictKeys(REVERSE_MAP_PIC16_EN))

\* all_mnemonics, listed in the iteration order the process happens to have
all_mnemonics(order) ==
  LET listed == DictKeys(REVERSE_MAP_EN)
                  \o SelectSeq(DictKeys(REVERSE_MAP_PIC16_EN),
                               LAMBDA k : ~DictHas(REVERSE_MAP_EN, k))
  IN IF order = "insertion" THEN listed ELSE Reverse(listed)
\* the sort with reverse=True left out: the shortest mnemonics come first
sorted_mnemonics_ascending(order) ==
  Reverse(SortedByLenDesc(Reverse(all_mnemonics(order))))

\* sorted(all_mnemonics, key=len, reverse=True)
sorted_mnemonics(order) == SortedByLenDesc(all_mnemonics(order))

build_reverse_regex(order) == ReCompile(sorted_mnemonics(order))

STD_MNEMONIC_RE_insertion == build_reverse_regex("insertion")
STD_MNEMONIC_RE_reversed == build_reverse_regex("reversed")

\* _STD_MNEMONIC_RE, built once when the module is loaded
STD_MNEMONIC_RE(order) ==
  IF order = "insertion" THEN STD_MNEMONIC_RE_insertion ELSE STD_MNEMONIC_RE_reversed

\* the Slovenian rev_map merged with the English PIC16 table
REV_MAP_SI_with_pic16_en == DictMerge(REVERSE_MAP_SI, REVERSE_MAP_PIC16_EN)

REV_MAP_SI == DictMerge(REVERSE_MAP_SI, REVERSE_MAP_PIC16_SI)

\* the English map without the PIC16 entries merged in
REV_MAP_EN_pic18_only == REVERSE_MAP_EN

REV_MAP_EN == DictMerge(REVERSE_MAP_EN, REVERSE_MAP_PIC16_EN)

\* rev_map with the two branches exchanged
rev_map_of_swapped(lang) == IF lang = "si" THEN REV_MAP_EN ELSE REV_MAP_SI

\* rev_map of reverse_translate
rev_map_of(lang) == IF lang = "si" THEN REV_MAP_SI ELSE REV_MAP_EN

\* the lookup in the English map whatever map the caller built
reverse_translate_line_replace_en_map(m, rev_map) == DictGet(REV_MAP_EN, StrUpper(m), m)

reverse_translate_line_replace(m, rev_map) == DictGet(rev_map, StrUpper(m), m)

\* the token loop returning the line as it is at a label instead of going on
first_token_is_directive_label_returns(tokens) ==
  IF tokens = << >> THEN FALSE
  ELSE IF EndsWith(tokens[1], ":") THEN TRUE
  ELSE LET upper_tok == LStrip(StrUpper(tokens[1]), {"."})
       IN upper_tok \in DIRECTIVES \/ StartsWith(tokens[1], "#")

\* the loop over tokens: labels (tokens ending in ":") are skipped and the
\* first other token decides
RECURSIVE first_token_is_directive(_)
first_token_is_directive(tokens) ==
  IF tokens = << >> THEN FALSE
  ELSE IF EndsWith(tokens[1], ":") THEN first_token_is_directive(Tail(tokens))
  ELSE LET upper_tok == LStrip(StrUpper(tokens[1]), {"."})
       IN upper_tok \in DIRECTIVES \/ StartsWith(tokens[1], "#")

\* an assignment pass in front of the substitution that gives up on a move
\* instruction with too few operands and returns the line as it is
reverse_translate_line_strict_moves(line, rev_map, order) ==
  LET stripped == RStrip(line, {"\n", "\r"})
      instr == SelectSeq(Split(stripped), LAMBDA t : ~EndsWith(t, ":"))
      misfit == /\ instr # << >>
                /\ \/ instr[1] \in {"MOVLW", "MOVWF"} /\ Len(instr) < 2
                   \/ instr[1] = "MOVFF" /\ Len(instr) < 3
  IN IF Strip(stripped) = "" \/ StartsWith(LStrip(stripped, Whitespace), ";")
       THEN stripped
       ELSE IF first_token_is_directive(Split(stripped)) \/ misfit
         THEN stripped
         ELSE LET parts == ReSubParts(STD_MNEMONIC_RE(order), stripped)
              IN StrJoin("", [n \in DOMAIN parts |->
                                IF parts[n][1]
                                  THEN reverse_translate_line_replace(parts[n][2], rev_map)
                                  ELSE parts[n][2]])

reverse_translate_line(line, rev_map, order) ==
  LET stripped == RStrip(line, {"\n", "\r"})
  IN IF Strip(stripped) = "" \/ StartsWith(LStrip(stripped, Whitespace), ";")
       THEN stripped
       ELSE IF first_token_is_directive(Split(stripped))
         THEN stripped
         ELSE LET parts == ReSubParts(STD_MNEMONIC_RE(order), stripped)
              IN StrJoin("", [n \in DOMAIN parts |->
                                IF parts[n][1]
                                  THEN reverse_translate_line_replace(parts[n][2], rev_map)
                                  ELSE parts[n][2]])

\* reverse_translate that ignores lang and always takes the English maps
reverse_translate_en_only(source, lang, order) ==
  LET lines == SplitLines(source)
  IN StrJoin("\n", [i \in DOMAIN lines |->
                      reverse_translate_line(lines[i], REV_MAP_EN, order)])

reverse_translate(source, lang, order) ==
  LET rev_map == rev_map_of(lang)
      lines == SplitLines(source)
  IN StrJoin("\n", [i \in DOMAIN lines |->
                      reverse_translate_line(lines[i], rev_map, order)])

\* the tables bound in the namespace of pic18_reverse_translator
reverse_tables ==
  [REVERSE_MAP_EN |-> REVERSE_MAP_EN, REVERSE_MAP_PIC16_EN |-> REVERSE_MAP_PIC16_EN,
   REVERSE_MAP_SI |-> REVERSE_MAP_SI, REVERSE_MAP_PIC16_SI |-> REVERSE_MAP_PIC16_SI]

\* the dicts and the matcher a process holds once both modules are
\* imported (the compiled _STD_MNEMONIC_RE and the frozenset _DIRECTIVES
\* are immutable objects, fixed with the set order of the process)
PROCESS_GLOBALS == TRANSLATOR_GLOBALS @@ reverse_tables

\* rev_map built by updating the first table in place: the merged dict is
\* the module's own REVERSE_MAP_SI or REVERSE_MAP_EN
build_rev_map_in_place(g, lang) ==
  IF lang = "si"
    THEN LET m == DictMerge(g.REVERSE_MAP_SI, g.REVERSE_MAP_PIC16_SI)
         IN [rev_map |-> m, globals |-> [g EXCEPT !.REVERSE_MAP_SI = m]]
    ELSE LET m == DictMerge(g.REVERSE_MAP_EN, g.REVERSE_MAP_PIC16_EN)
         IN [rev_map |-> m, globals |-> [g EXCEPT !.REVERSE_MAP_EN = m]]

\* rev_map of reverse_translate, built from the tables the namespace g
\* holds when the call starts: a new dict, g is left as it is
build_rev_map(g, lang) ==
  [rev_map |-> IF lang = "si"
                 THEN DictMerge(g.REVERSE_MAP_SI, g.REVERSE_MAP_PIC16_SI)
                 ELSE DictMerge(g.REVERSE_MAP_EN, g.REVERSE_MAP_PIC16_EN),
   globals |-> g]

-----------------------------------------------------------------------------
(* The inputs that are explored                                            *)

\* number of translator calls chained on one source
MaxOps == 2

\* number of lines of the multi-line sources
MaxLines == 2

Langs == {"en", "si"}

ReadableNames == {INSTRUCTION_MAP_ALL[i][1] : i \in DOMAIN INSTRUCTION_MAP_ALL}

StdMnemonics == {REV_MAP_EN[i][1] : i \in DOMAIN REV_MAP_EN}

\* operands of the one-instruction lines
TableOperands == {"", " TEMP, PORTA"}

\* one instruction per line: every readable name and every mnemonic
TableLines == {t \o o : t \in ReadableNames \cup StdMnemonics, o \in TableOperands}

Labels == {"", "LOOP: ", "RESET: ", "clear_f: "}

Indents == {"", "    "}

Instrs == {"MOVLW", "MOVWF", "MOVFF", "GOTO", "movlw", "goto_address", "call_subroutine"}

Operands == {"", " 0x05", " TEMP, PORTA", " PORTB, ACCESS", " RESET", " software_reset"}

Comments == {"", "        ; load mask", " ; RESET clear_f"}

\* [label] [indent] instruction [operands] [comment]
ContextLines ==
  {l \o i \o m \o o \o c :
     l \in Labels, i \in Indents, m \in Instrs, o \in Operands, c \in Comments}

DirectiveLabels == {"", "START: ", "a: b: "}

DirectiveTokens == {"ORG", "org", ".org", "List", "#define", "#include", "__CONFIG"}

DirectiveRests == {"", " 0x0000", " CLR clear_f", " CLRF, table_read"}

\* [labels] directive [rest]
DirectiveLines ==
  {l \o d \o r : l \in DirectiveLabels, d \in DirectiveTokens, r \in DirectiveRests}

\* blank lines and comment-only lines
BlankOrCommentLines ==
  {w \o c : w \in {"", " ", "\t  "},
            c \in {"", ";", "; CLRF clear_f", ";MOVLW 0x05 pocisti_f"}}

Terminators == {"\n", "\r\n", "\r"}

ShortLines == {"", "NOP", "clear_f x"}

RECURSIVE Bodies(_)
\* n lines with a terminator between each two
Bodies(n) ==
  IF n = 1 THEN ShortLines
  ELSE {l \o t \o b : l \in ShortLines, t \in Terminators, b \in Bodies(n - 1)}

MultiLineSources ==
  UNION {{b \o e : b \in Bodies(n), e \in Terminators \cup {""}} : n \in 1..MaxLines}

\* lines with a letter written as LONG S or KELVIN SIGN
FoldedLines ==
  {LongS \o "et_f PORTB", "enter_" \o LongS \o "leep_mode", LongS \o "LEEP",
   "    " \o LongS \o "leep", "ADDULN" \o KelvinSign,
   "pristej_w_" \o KelvinSign \o "_f TEMP", "CLRF" \o LongS, LongS \o "clear_f"}

\* lines in the assignment syntax
AssignmentLines ==
  {l \o a \o c : l \in {"", "    ", "LOOP: "},
                 a \in {"wreg = 0x05", "PORTB = wreg, ACCESS", "PORTA = TEMP"},
                 c \in {"", "        ; load mask"}}

\* readable names written with capital letters
MixedCaseNames ==
  {<<"Clear_F", "clear_f">>, <<"Move_Literal_To_W", "move_literal_to_w">>,
   <<"pOCISTI_f", "pocisti_f">>, <<"Table_Read_Post_Increment", "table_read_post_increment">>}

\* every readable name in upper case, and some in mixed case, with operands
CasedLines ==
  {StrUpper(n) \o " TEMP, PORTA" : n \in ReadableNames}
    \cup {p[1] \o o : p \in MixedCaseNames, o \in TableOperands}

\* move instructions with operands that are no <literal>, no <dest> and no
\* <src>, <dest>
MisfitMoves ==
  {<<"MOVLW", "">>, <<"MOVWF", "">>, <<"MOVFF", "">>, <<"MOVFF", " TEMP">>,
   <<"MOVFF", " TEMP ; PORTA">>, <<"MOVLW", " 1, 2, 3">>, <<"MOVWF", " ,">>}

MisfitMoveLines == {i \o p[1] \o p[2] : i \in Indents, p \in MisfitMoves}

\* keys of the tables and word characters to write next to them
EmbeddedKeys == {"CALL", "RESET", "TBLRD*", "clear_f", "pocisti_f", "move_f"}
Affixes == {"x", "2", "_"}

\* identifiers in which a key of the tables is a part
EmbeddedLines ==
  {c \o k : c \in Affixes, k \in EmbeddedKeys}
    \cup {k \o c : k \in EmbeddedKeys, c \in Affixes}
    \cup {"MYCALL", "CALL_2", "xclear_f", "CALL2 RESET1",
          "    MYCALL LOOP ; xclear_f"}

Sources ==
  TableLines \cup ContextLines \cup DirectiveLines \cup BlankOrCommentLines
    \cup MultiLineSources \cup FoldedLines \cup AssignmentLines
    \cup EmbeddedLines \cup CasedLines \cup MisfitMoveLines

-----------------------------------------------------------------------------
(* The translators as a state machine: a source text is given, then        *)
(* translate and reverse_translate are applied to the current text.        *)

VARIABLES
  source,    \* the text first given
  text,      \* the current text: source after the calls in ops
  ops,       \* the calls made so far, in order
  setorder,  \* the set iteration order of this process
  globals,   \* the module-level tables and matcher bound so far
  calls,     \* the calls in progress in concurrent callers
  cli,       \* a run of the forward command line: arguments, files, output
  ide        \* a build handler of the IDE: file, tools, steps taken

vars == <<source, text, ops, setorder, globals, calls, cli, ide>>

\* Python's None
None == "<None>"

\* no run of main() of pic18_translator in this process
CliOff ==
  [pc |-> "off", args |-> [ref |-> FALSE, input |-> None, output |-> None],
   files |-> << >>, stdout |-> << >>, closed |-> FALSE, events |-> << >>]

\* no IDE window in this process
IdeOff ==
  [pc |-> "off", handler |-> None, fp |-> None, hex |-> FALSE,
   prog_type |-> "none", compiled |-> FALSE, checked |-> FALSE,
   steps |-> << >>]

Init ==
  /\ source \in Sources
  /\ text = source
  /\ ops = << >>
  /\ setorder \in SetOrders
  /\ globals = PROCESS_GLOBALS
  /\ calls = << >>
  /\ cli = CliOff
  /\ ide = IdeOff

\* result = translate(source)
Translate ==
  /\ Len(ops) < MaxOps
  /\ text # KeyError
  /\ text' = translate(text)
  /\ ops' = Append(ops, <<"translate">>)
  /\ UNCHANGED <<source, setorder, globals, calls, cli, ide>>

\* result = reverse_translate(source, lang=lang)
ReverseTranslate(lang) ==
  /\ Len(ops) < MaxOps
  /\ text # KeyError
  /\ text' = reverse_translate(text, lang, setorder)
  /\ ops' = Append(ops, <<"reverse_translate", lang>>)
  /\ UNCHANGED <<source, setorder, globals, calls, cli, ide>>

Next ==
  \/ Translate
  \/ \E lang \in Langs : ReverseTranslate(lang)

Spec == Init /\ [][Next]_vars

-----------------------------------------------------------------------------
(* Line structure of the output                                            *)

\* the translation of one line by the call op (its set order is the state's)
LineResult(op, line) ==
  IF op[1] = "translate" THEN translate_line(line)
  ELSE reverse_translate_line(line, rev_map_of(op[2]), setorder)

\* a single call has been made on the source
OneCall == Len(ops) = 1

\* C1 (as stated): after translate or reverse_translate the output has
\* exactly as many lines as the input, output line i is the translation of
\* input line i, and every line terminator of the output is "\n".
C1_LineCountPreserved ==
  OneCall =>
    LET inl == SplitLines(source)
        outl == SplitLines(text)
    IN /\ Len(outl) = Len(inl)
       /\ \A i \in DOMAIN inl : outl[i] = LineResult(ops[1], inl[i])
       /\ CharsOf(text) \cap LineBreaks \subseteq {"\n"}

\* C1 (amended): the output is the translations of the input lines, in
\* order, separated by single "\n" and with no terminator after the last
\* one.  Splitting the output again gives the translated lines one for one,
\* except that a final empty input line leaves no line in the output.
C1_LinesJoinedByNewline ==
  OneCall =>
    LET inl == SplitLines(source)
        outl == SplitLines(text)
        n == Len(inl)
        kept == IF n > 0 /\ inl[n] = "" THEN n - 1 ELSE n
    IN /\ Len(outl) = kept
       /\ \A i \in 1..kept : outl[i] = LineResult(ops[1], inl[i])
       /\ CharsOf(text) \cap LineBreaks \subseteq {"\n"}
       /\ Cardinality({i \in 1..Len(text) : At(text, i) = "\n"})
            = IF n = 0 THEN 0 ELSE n - 1

\* C1 witness: two input lines ended by "\r\n" and "\n", the second one
\* empty, reverse-translated to one line and one "\n".
C1_Witness ==
  /\ ops = << <<"reverse_translate", "en">> >>
  /\ source = "NOP\r\n\n"
  /\ text = "no_operation\n"

-----------------------------------------------------------------------------
(* Reverse translation of the move instructions                            *)

\* sub occurs in s
Contains(s, sub) ==
  \E k \in 1..(Len(s) - Len(sub) + 1) : SubSeq(s, k, k + Len(sub) - 1) = sub

\* exactly one call, reverse_translate(source, lang), has been made
Reversed(lang) == ops = << <<"reverse_translate", lang>> >>

\* operands and comments of the explored lines in which no standard
\* mnemonic occurs
PlainOperands == {" 0x05", " TEMP, PORTA", " PORTB, ACCESS", " software_reset"}
PlainComments == {"", "        ; load mask"}

MovffName(lang) == IF lang = "si" THEN "premakni_f_v_f" ELSE "move_f_to_f"
MovwfName(lang) == IF lang = "si" THEN "premakni_w_v_f" ELSE "move_w_to_f"

ResetName(lang) == IF lang = "si" THEN "programska_ponastavitev" ELSE "software_reset"

\* the <src>, <dest> pairs of the explored MOVFF lines
MovffPairs == {<<"TEMP", "PORTA">>, <<"PORTB", "ACCESS">>}

PlainLabels == {"", "LOOP: ", "clear_f: "}

-----------------------------------------------------------------------------
(* Round trip, directives, comments, labels and operands                   *)

\* the forward tables of one locale, PIC18 and PIC16
ForwardMapOf(lang) ==
  IF lang = "si" THEN INSTRUCTION_MAP_SI \o INSTRUCTION_MAP_PIC16_SI
  ELSE INSTRUCTION_MAP \o INSTRUCTION_MAP_PIC16

MoveClass == {"MOVLW", "MOVWF", "MOVFF"}

Pic16Only(pic16, pic18) ==
  SelectSeq(pic16, LAMBDA p : \A j \in DOMAIN pic18 : pic18[j][2] # p[2])

\* the entries of a PIC16 table whose mnemonic the PIC18 table has too, each
\* as <<PIC16 name, PIC18 name>>
Pic16Aliases(pic16, pic18) ==
  LET shared == SelectSeq(pic16, LAMBDA p : \E j \in DOMAIN pic18 : pic18[j][2] = p[2])
  IN [k \in DOMAIN shared |->
        <<shared[k][1],
          pic18[CHOOSE j \in DOMAIN pic18 : pic18[j][2] = shared[k][2]][1]>>]

\* the readable names of a locale that are no alias: the names of its PIC18
\* table, and the names of its PIC16 table for mnemonics PIC18 has not
PrimaryEntriesEN == INSTRUCTION_MAP \o Pic16Only(INSTRUCTION_MAP_PIC16, INSTRUCTION_MAP)
PrimaryEntriesSI == INSTRUCTION_MAP_SI \o Pic16Only(INSTRUCTION_MAP_PIC16_SI, INSTRUCTION_MAP_SI)
AliasesEN == Pic16Aliases(INSTRUCTION_MAP_PIC16, INSTRUCTION_MAP)
AliasesSI == Pic16Aliases(INSTRUCTION_MAP_PIC16_SI, INSTRUCTION_MAP_SI)

PrimaryEntries(lang) == IF lang = "si" THEN PrimaryEntriesSI ELSE PrimaryEntriesEN
Aliases(lang) == IF lang = "si" THEN AliasesSI ELSE AliasesEN

OneLine == CharsOf(source) \cap LineBreaks = {}

\* C6: a line whose first token after the labels is a directive keyword in
\* any case, or begins with "#", is returned unchanged by translate and by
\* reverse_translate, whatever else stands on the line.
C6_DirectiveLinesUnchanged ==
  \A l \in DirectiveLabels, d \in DirectiveTokens \ {".org"}, r \in DirectiveRests :
    (OneCall /\ source = l \o d \o r) => text = source

\* C7: translating a line made of a readable name r of any of the four
\* tables and of operands replaces r by its mnemonic and leaves the
\* operands as they are.
C7_OnlyNameReplaced ==
  \A k \in DOMAIN INSTRUCTION_MAP_ALL, o \in Operands \cup TableOperands :
    (ops = << <<"translate">> >> /\ source = INSTRUCTION_MAP_ALL[k][1] \o o)
      => text = INSTRUCTION_MAP_ALL[k][2] \o o

\* the line is empty, all whitespace, or starts with ";" after whitespace
BlankOrComment(line) ==
  \/ \A k \in 1..Len(line) : At(line, k) \in Whitespace
  \/ \E k \in 1..Len(line) :
       /\ At(line, k) = ";"
       /\ \A j \in 1..(k - 1) : At(line, j) \in Whitespace

\* C8: a line that is empty, whitespace only, or a comment (";" first after
\* whitespace) is returned unchanged by translate and by reverse_translate.
C8_BlankAndCommentUnchanged ==
  (OneCall /\ OneLine /\ BlankOrComment(source)) => text = source

\* C8 witness: a comment line naming a mnemonic and a readable name has
\* gone through translate.
C8_Witness ==
  /\ ops = << <<"translate">> >>
  /\ source = "\t  ; CLRF clear_f"
  /\ text = source

\* C9: on a line that is not a directive, translate leaves the label and
\* the inline comment as they are.
C9_ForwardKeepsLabelAndComment ==
  \A l \in Labels, i \in Indents, m \in Instrs, o \in Operands, c \in Comments :
    (ops = << <<"translate">> >> /\ source = l \o i \o m \o o \o c)
      => StartsWith(text, l) /\ EndsWith(text, c)

\* the readable names of the mnemonics of the explored lines
NameOf(lang, m) ==
  CASE m = "MOVLW" -> IF lang = "si" THEN "premakni_konstanto_v_w" ELSE "move_literal_to_w"
    [] m = "MOVWF" -> MovwfName(lang)
    [] m = "MOVFF" -> MovffName(lang)
    [] m = "GOTO" -> IF lang = "si" THEN "pojdi_na_naslov" ELSE "goto_address"

\* C10: on a line that is not a directive, reverse_translate changes the
\* instruction mnemonic only: label, operands and comment stay as they are
\* even when spelled like a mnemonic.
C10_ReverseKeepsLabelOperandComment ==
  \A lang \in Langs, l \in Labels, i \in Indents,
     m \in {"MOVLW", "MOVWF", "MOVFF", "GOTO"}, o \in Operands, c \in Comments :
    (Reversed(lang) /\ source = l \o i \o m \o o \o c)
      => text = l \o i \o NameOf(lang, m) \o o \o c

-----------------------------------------------------------------------------
(* Longest match among the table-read mnemonics                            *)

\* the table-read mnemonics, of which "TBLRD*" is a prefix of two others
TableReads == {"TBLRD*", "TBLRD*+", "TBLRD*-", "TBLRD+*"}

\* the readable names of the table-read mnemonics are four different names
\* in each locale, with none of "*", "+", "-" in them
TableReadNamesApart ==
  \A lang \in Langs, m \in TableReads :
    LET r == DictGet(rev_map_of(lang), m, m)
    IN /\ CharsOf(r) \cap {"*", "+", "-"} = {}
       /\ \A m2 \in TableReads \ {m} : DictGet(rev_map_of(lang), m2, m2) # r

\* C11: each of TBLRD*, TBLRD*+, TBLRD*- and TBLRD+* is reverse-translated,
\* in both locales, to its own readable name with nothing of the mnemonic
\* left behind ("+", "-", "*"), the four names differ, and translate turns
\* each of the four names back into exactly the mnemonic it came from.
C11_TableReadsKeptApart ==
  /\ TableReadNamesApart
  /\ OneCall =>
       \A lang \in Langs, m \in TableReads, o \in TableOperands :
         LET r == DictGet(rev_map_of(lang), m, m)
         IN /\ (Reversed(lang) /\ source = m \o o) => text = r \o o
            /\ (ops = << <<"translate">> >> /\ source = r \o o) => text = m \o o

\* C11 witness: "TBLRD*+" with operands has been reverse-translated into
\* Slovenian as one mnemonic, not as "TBLRD*" followed by "+".
C11_Witness ==
  /\ Reversed("si")
  /\ source = "TBLRD*+ TEMP, PORTA"
  /\ text = "beri_tabelo_povecaj_po TEMP, PORTA"

-----------------------------------------------------------------------------
(* The compound mnemonic ADDULNK                                           *)

\* the matches _STD_MNEMONIC_RE finds on a line, in order
MatchesOf(line, order) ==
  LET parts == ReSubParts(STD_MNEMONIC_RE(order), line)
  IN SelectSeq([n \in DOMAIN parts |-> IF parts[n][1] THEN parts[n][2] ELSE ""],
               LAMBDA t : t # "")

AddulnkName(lang) ==
  IF lang = "si" THEN "pristej_konstanto_k_fsr2_in_vrni"
  ELSE "add_literal_to_fsr2_and_return"

\* C12: on a line holding ADDULNK the reverse translator finds one match,
\* the whole token "ADDULNK", and replaces it by its readable name; no part
\* of the token is matched by itself and nothing of it is left on the line.
C12_AddulnkMatchedWhole ==
  \A lang \in Langs, o \in TableOperands :
    (Reversed(lang) /\ source = "ADDULNK" \o o)
      => /\ MatchesOf(source, setorder) = <<"ADDULNK">>
         /\ text = AddulnkName(lang) \o o

\* C12 witness: "ADDULNK" alone on its line has been reverse-translated.
C12_Witness ==
  /\ Reversed("en")
  /\ source = "ADDULNK"
  /\ text = "add_literal_to_fsr2_and_return"

-----------------------------------------------------------------------------
(* Import of pic18_translator: construction of the merged table            *)

\* the largest number of entries of a table given to the import
MaxEntries == 1

\* readable names and mnemonics of the tables given to the import
EntryNames == {"clear_f", "clear_w"}
EntryMnemonics == {"CLRF", "CLRW"}

\* the dict literals of at most MaxEntries entries over these names
SmallTables ==
  {t \in UNION {[1..n -> EntryNames \X EntryMnemonics] : n \in 0..MaxEntries} :
     \A i, j \in DOMAIN t : t[i][1] = t[j][1] => i = j}

\* the module text: four small tables, or the four tables as shipped
ModuleTexts ==
  {translator_tables(a, b, c, d) : a, b, c, d \in SmallTables}
    \cup {translator_tables(INSTRUCTION_MAP, INSTRUCTION_MAP_SI,
                            INSTRUCTION_MAP_PIC16, INSTRUCTION_MAP_PIC16_SI)}

\* the merged map is bound: the import has run to its end
Imported == "INSTRUCTION_MAP_ALL" \in DOMAIN globals

\* the four tables are defined and nothing else is bound yet
LoadInit ==
  /\ globals \in ModuleTexts
  /\ source = ""
  /\ text = ""
  /\ ops = << >>
  /\ setorder = "insertion"
  /\ calls = << >>
  /\ cli = CliOff
  /\ ide = IdeOff

\* import pic18_translator: INSTRUCTION_MAP_ALL, _SORTED_KEYS, _MNEMONIC_RE
ImportTranslator ==
  /\ ~Imported
  /\ globals' = import_translator(globals)
  /\ UNCHANGED <<source, text, ops, setorder, calls, cli, ide>>

LoadNext == ImportTranslator

LoadSpec == LoadInit /\ [][LoadNext]_vars

\* the four tables of a namespace, in the order they are merged
TablesOf(g) ==
  <<g.INSTRUCTION_MAP, g.INSTRUCTION_MAP_SI,
    g.INSTRUCTION_MAP_PIC16, g.INSTRUCTION_MAP_PIC16_SI>>

\* two of the merged tables give one readable name two different mnemonics
Conflict(g) ==
  \E a, b \in 1..4 :
    /\ a < b
    /\ \E i \in DOMAIN TablesOf(g)[a], j \in DOMAIN TablesOf(g)[b] :
         /\ TablesOf(g)[a][i][1] = TablesOf(g)[b][j][1]
         /\ TablesOf(g)[a][i][2] # TablesOf(g)[b][j][2]

-----------------------------------------------------------------------------
(* Unrecognised tokens and failing lookups                                 *)

\* C14: neither translate nor reverse_translate raises an error, whatever
\* the input line: a token that is no table entry is passed through, and
\* for every token the matcher matches the table lookup finds a
\* replacement.
C14_NoCallRaises ==
  OneCall => text # KeyError

-----------------------------------------------------------------------------
(* The tables as shipped                                                   *)

\* the namespace holds the four forward tables as shipped
Shipped ==
  TablesOf(globals) = <<INSTRUCTION_MAP, INSTRUCTION_MAP_SI,
                        INSTRUCTION_MAP_PIC16, INSTRUCTION_MAP_PIC16_SI>>

\* no readable name and no mnemonic stands in two entries of the table
Bijective(t) ==
  \A i, j \in DOMAIN t : (t[i][1] = t[j][1] \/ t[i][2] = t[j][2]) => i = j

\* C15: in each of the four forward tables (PIC18-EN, PIC18-SI, PIC16-EN,
\* PIC16-SI) every readable name stands once and every mnemonic stands
\* once: the table is a bijection between its names and its mnemonics.
C15_EachTableBijective ==
  Shipped => \A n \in 1..4 : Bijective(TablesOf(globals)[n])

\* C15 witness: the shipped tables are loaded, and the 19 entries of the
\* PIC16 English table carry 19 names and 19 mnemonics.
C15_Witness ==
  /\ Shipped
  /\ Imported
  /\ Cardinality({globals.INSTRUCTION_MAP_PIC16[i][1] :
                    i \in DOMAIN globals.INSTRUCTION_MAP_PIC16}) = 19
  /\ Cardinality({globals.INSTRUCTION_MAP_PIC16[i][2] :
                    i \in DOMAIN globals.INSTRUCTION_MAP_PIC16}) = 19

\* C16: across the four shipped tables no readable name stands twice, so
\* the merged map has as many entries as the four tables together and
\* gives every name the mnemonic of its own table: no entry overrides
\* another.
C16_NamesGloballyUnique ==
  (Shipped /\ Imported) =>
    LET ts == TablesOf(globals)
        all == globals.INSTRUCTION_MAP_ALL
    IN /\ Len(all) = Len(ts[1]) + Len(ts[2]) + Len(ts[3]) + Len(ts[4])
       /\ \A a, b \in 1..4 :
            a < b => \A i \in DOMAIN ts[a], j \in DOMAIN ts[b] : ts[a][i][1] # ts[b][j][1]
       /\ \A n \in 1..4 :
            \A i \in DOMAIN ts[n] : DictGet(all, ts[n][i][1], "") = ts[n][i][2]

\* C16 witness: the shipped tables have been merged into 202 entries,
\* 82 + 82 + 19 + 19.
C16_Witness ==
  /\ Shipped
  /\ Imported
  /\ Len(globals.INSTRUCTION_MAP_ALL) = 202
  /\ Len(globals.INSTRUCTION_MAP) = 82
  /\ Len(globals.INSTRUCTION_MAP_PIC16_SI) = 19

-----------------------------------------------------------------------------
(* Reverse lookup against the forward tables                               *)

\* the reverse lookup of each locale has exactly the mnemonics of the
\* locale's forward tables as keys, each once, and gives each a name that
\* the forward tables map to this mnemonic
ReverseInvertsForward ==
  \A lang \in Langs :
    LET rev == rev_map_of(lang)
        fwd == ForwardMapOf(lang)
    IN /\ {rev[i][1] : i \in DOMAIN rev} = {fwd[k][2] : k \in DOMAIN fwd}
       /\ \A i, j \in DOMAIN rev : rev[i][1] = rev[j][1] => i = j
       /\ \A i \in DOMAIN rev :
            \E k \in DOMAIN fwd : fwd[k][1] = rev[i][2] /\ fwd[k][2] = rev[i][1]

\* C17: for each locale the reverse lookup is the inverse of the union of
\* the locale's PIC16 and PIC18 forward tables: its keys are exactly the
\* mnemonics of those tables, each mnemonic has one readable name, that name
\* maps forward to the same mnemonic, and it is the name reverse_translate
\* writes for the mnemonic.
C17_ReverseInvertsForward ==
  /\ ReverseInvertsForward
  /\ \A lang \in Langs :
       Reversed(lang) =>
         \A k \in DOMAIN ForwardMapOf(lang) :
           source = ForwardMapOf(lang)[k][2] =>
             /\ text = DictGet(rev_map_of(lang), source, "")
             /\ DictGet(ForwardMapOf(lang), text, "") = source

\* C17 witness: CLRW, a mnemonic of the PIC16 tables only, has been
\* reverse-translated into Slovenian.
C17_Witness ==
  /\ Reversed("si")
  /\ source = "CLRW"
  /\ text = "pocisti_w"

-----------------------------------------------------------------------------
(* Concurrent callers                                                      *)

\* number of callers that translate at the same time
MaxCallers == 2

Callers == 1..MaxCallers

\* the texts given to the concurrent calls
ConcSources ==
  {"clear_f PORTB\nCLRF PORTB",
   "RESET: GOTO RESET\r\nmove_literal_to_w 0x05\n",
   LongS \o "et_f"}

\* a caller that has made no call
Idle ==
  [pc |-> "idle", fn |-> "", lang |-> "", source |-> "", lines |-> << >>,
   rev_map |-> << >>, outs |-> << >>, result |-> ""]

\* both modules are imported, no caller has called yet
ConcInit ==
  /\ source = ""
  /\ text = ""
  /\ ops = << >>
  /\ setorder \in SetOrders
  /\ globals = PROCESS_GLOBALS
  /\ calls = [c \in Callers |-> Idle]
  /\ cli = CliOff
  /\ ide = IdeOff

\* caller c enters translate(src): source.splitlines()
CallTranslate(c, src) ==
  /\ calls[c].pc = "idle"
  /\ calls' = [calls EXCEPT ![c] =
                 [Idle EXCEPT !.pc = "running", !.fn = "translate",
                              !.source = src, !.lines = SplitLines(src)]]
  /\ UNCHANGED <<source, text, ops, setorder, globals, cli, ide>>

\* caller c enters reverse_translate(src, lang): rev_map, source.splitlines()
CallReverseTranslate(c, src, lang) ==
  /\ calls[c].pc = "idle"
  /\ LET built == build_rev_map(globals, lang)
     IN /\ globals' = built.globals
        /\ calls' = [calls EXCEPT ![c] =
                       [Idle EXCEPT !.pc = "running", !.fn = "reverse_translate",
                                    !.lang = lang, !.source = src,
                                    !.lines = SplitLines(src),
                                    !.rev_map = built.rev_map]]
  /\ UNCHANGED <<source, text, ops, setorder, cli, ide>>

\* the generator of caller c yields the translation of the next line, or
\* the KeyError of translate_line leaves the call
LineStep(c) ==
  /\ calls[c].pc = "running"
  /\ Len(calls[c].outs) < Len(calls[c].lines)
  /\ LET line == calls[c].lines[Len(calls[c].outs) + 1]
         out == IF calls[c].fn = "translate"
                  THEN translate_line_in(globals, line)
                  ELSE reverse_translate_line(line, calls[c].rev_map, setorder)
     IN calls' = [calls EXCEPT ![c] =
                    IF out = KeyError
                      THEN [@ EXCEPT !.pc = "raised", !.result = KeyError]
                      ELSE [@ EXCEPT !.outs = Append(@, out)]]
  /\ UNCHANGED <<source, text, ops, setorder, globals, cli, ide>>

\* "\n".join(...) of caller c has consumed every line: the call returns
Return(c) ==
  /\ calls[c].pc = "running"
  /\ Len(calls[c].outs) = Len(calls[c].lines)
  /\ calls' = [calls EXCEPT ![c] =
                 [@ EXCEPT !.pc = "returned",
                           !.result = StrJoin("\n", calls[c].outs)]]
  /\ UNCHANGED <<source, text, ops, setorder, globals, cli, ide>>

ConcNext ==
  \E c \in Callers :
    \/ \E src \in ConcSources : CallTranslate(c, src)
    \/ \E src \in ConcSources, lang \in Langs : CallReverseTranslate(c, src, lang)
    \/ LineStep(c)
    \/ Return(c)

ConcSpec == ConcInit /\ [][ConcNext]_vars

\* what the call of caller c gives when it is the only call made
Alone(call) ==
  IF call.fn = "translate" THEN translate(call.source)
  ELSE reverse_translate(call.source, call.lang, setorder)

\* C18: the result of a translation call depends on its arguments only.  No
\* call changes the tables or the matcher, and however the calls of the
\* concurrent callers are interleaved line by line, each call that has
\* ended has given what the same call gives when run alone.
C18_CallsDoNotInterfere ==
  /\ globals = PROCESS_GLOBALS
  /\ \A c \in Callers :
       calls[c].pc \in {"returned", "raised"} => calls[c].result = Alone(calls[c])

\* C18 witness: caller 1 is between its two lines while caller 2 has gone
\* through a whole reverse translation of the same text.
C18_Witness ==
  /\ calls[1].pc = "running"
  /\ calls[1].fn = "translate"
  /\ calls[1].source = "clear_f PORTB\nCLRF PORTB"
  /\ calls[1].outs = <<"CLRF PORTB">>
  /\ calls[2].pc = "returned"
  /\ calls[2].fn = "reverse_translate"
  /\ calls[2].source = calls[1].source
  /\ calls[2].result = "clear_f PORTB\nclear_f PORTB"

-----------------------------------------------------------------------------
(* Order of the alternatives in the matchers                               *)

\* the other iteration order of the set of mnemonics
OtherOrder(order) == IF order = "insertion" THEN "reversed" ELSE "insertion"

\* the translator namespace with the matcher built from the keys of
\* INSTRUCTION_MAP_ALL iterated backwards
TRANSLATOR_GLOBALS_reversed_keys ==
  [TRANSLATOR_GLOBALS EXCEPT
     !.MNEMONIC_RE = ReCompile(SortedByLenDesc(Reverse(DictKeys(INSTRUCTION_MAP_ALL))))]

\* translate with the matcher of TRANSLATOR_GLOBALS_reversed_keys
TranslateReversedKeys(src) ==
  LET lines == SplitLines(src)
      outs == Evaluated([i \in DOMAIN lines |->
                 translate_line_in(TRANSLATOR_GLOBALS_reversed_keys, lines[i])])
  IN IF \E i \in DOMAIN lines : outs[i] = KeyError THEN KeyError
     ELSE StrJoin("\n", outs)

\* C19: the translation does not depend on the order in which the table
\* keys are iterated when the matcher is built: with the keys sorted by
\* descending length, reverse_translate gives the same text under either
\* iteration order of the set of mnemonics, and translate the same text
\* with the keys of the merged map iterated backwards.
C19_KeyOrderIrrelevant ==
  OneCall =>
    /\ \A lang \in Langs :
         Reversed(lang) => text = reverse_translate(source, lang, OtherOrder(setorder))
    /\ ops = << <<"translate">> >> => text = TranslateReversedKeys(source)

\* C19 witness: under the reversed set order "TBLWT*-", which has the
\* mnemonic "TBLWT*" as a prefix, has been reverse-translated as a whole.
C19_Witness ==
  /\ setorder = "reversed"
  /\ Reversed("en")
  /\ source = "TBLWT*- TEMP, PORTA"
  /\ text = "table_write_post_decrement TEMP, PORTA"

-----------------------------------------------------------------------------
(* Assignment syntax in the forward direction                              *)

\* C20: translate makes no instruction out of a line in assignment syntax:
\* "wreg = 0x05", "PORTB = wreg, ACCESS" and "PORTA = TEMP", with or without
\* label, indentation and comment, come back unchanged, and no MOVLW,
\* MOVWF or MOVFF is written.
C20_AssignmentsUnchanged ==
  (ops = << <<"translate">> >> /\ source \in AssignmentLines)
    => /\ text = source
       /\ \A m \in MoveClass : ~Contains(text, m)

\* C20 witness: the indented assignment "wreg = 0x05" with its comment has
\* gone through translate.
C20_Witness ==
  /\ ops = << <<"translate">> >>
  /\ source = "    wreg = 0x05        ; load mask"
  /\ text = source

-----------------------------------------------------------------------------
(* Whole-token matching                                                    *)

-----------------------------------------------------------------------------
(* Case of the readable names                                              *)

\* every mnemonic stored in the merged forward table is in upper case
StoredMnemonicsUpper ==
  \A k \in DOMAIN INSTRUCTION_MAP_ALL :
    StrUpper(INSTRUCTION_MAP_ALL[k][2]) = INSTRUCTION_MAP_ALL[k][2]

\* the lines with a readable name in lower, upper or mixed case, each with
\* the line the table gives for it
CasedExpected ==
  {<<INSTRUCTION_MAP_ALL[k][1] \o " TEMP, PORTA",
     INSTRUCTION_MAP_ALL[k][2] \o " TEMP, PORTA">> : k \in DOMAIN INSTRUCTION_MAP_ALL}
    \cup {<<StrUpper(INSTRUCTION_MAP_ALL[k][1]) \o " TEMP, PORTA",
            INSTRUCTION_MAP_ALL[k][2] \o " TEMP, PORTA">> : k \in DOMAIN INSTRUCTION_MAP_ALL}
    \cup {<<p[1] \o o, DictGet(INSTRUCTION_MAP_ALL, p[2], KeyError) \o o>> :
            p \in MixedCaseNames, o \in TableOperands}

\* C22: translate matches a readable name in whatever case it is written
\* (lower, upper, mixed) and puts the mnemonic as the table stores it, in
\* upper case, in its place.
C22_AnyCaseGivesStoredMnemonic ==
  ops = << <<"translate">> >> =>
    /\ StoredMnemonicsUpper
    /\ \A p \in CasedExpected : source = p[1] => text = p[2]

\* C22 witness: "Move_Literal_To_W" has been translated to MOVLW.
C22_Witness ==
  /\ ops = << <<"translate">> >>
  /\ source = "Move_Literal_To_W TEMP, PORTA"
  /\ text = "MOVLW TEMP, PORTA"

-----------------------------------------------------------------------------
(* Locale of the reverse translation                                       *)

\* the readable names of the reverse tables of each locale
NamesEN ==
  {REVERSE_MAP_EN[k][2] : k \in DOMAIN REVERSE_MAP_EN}
    \cup {REVERSE_MAP_PIC16_EN[k][2] : k \in DOMAIN REVERSE_MAP_PIC16_EN}
NamesSI ==
  {REVERSE_MAP_SI[k][2] : k \in DOMAIN REVERSE_MAP_SI}
    \cup {REVERSE_MAP_PIC16_SI[k][2] : k \in DOMAIN REVERSE_MAP_PIC16_SI}

\* the name the reverse tables of each locale hold for the mnemonic m
TableNameEN(m) ==
  IF DictHas(REVERSE_MAP_PIC16_EN, m) THEN DictGet(REVERSE_MAP_PIC16_EN, m, m)
  ELSE DictGet(REVERSE_MAP_EN, m, m)
TableNameSI(m) ==
  IF DictHas(REVERSE_MAP_PIC16_SI, m) THEN DictGet(REVERSE_MAP_PIC16_SI, m, m)
  ELSE DictGet(REVERSE_MAP_SI, m, m)

\* each one-mnemonic line with its reverse translation by the tables of
\* the locale
LocaleExpectedEN ==
  {<<m \o o, TableNameEN(m) \o o>> : m \in StdMnemonics, o \in TableOperands}
LocaleExpectedSI ==
  {<<m \o o, TableNameSI(m) \o o>> : m \in StdMnemonics, o \in TableOperands}

\* C23: reverse_translate puts names of the requested locale only: with
\* lang "si" each mnemonic becomes the name the Slovenian reverse tables
\* hold for it, with lang "en" the name of the English ones; no name
\* belongs to both locales, and a line with several mnemonics gets all its
\* names from the one locale.
C23_NamesOfRequestedLocaleOnly ==
  /\ Reversed("en") =>
       /\ NamesEN \cap NamesSI = {}
       /\ \A p \in LocaleExpectedEN : source = p[1] => text = p[2] /\ p[2] # p[1]
       /\ \A m \in Instrs \cap StdMnemonics :
            source = "RESET: " \o m \o " RESET"
              => text = "software_reset: " \o TableNameEN(m) \o " software_reset"
  /\ Reversed("si") =>
       /\ \A p \in LocaleExpectedSI : source = p[1] => text = p[2] /\ p[2] # p[1]
       /\ \A m \in Instrs \cap StdMnemonics :
            source = "RESET: " \o m \o " RESET"
              => text = "programska_ponastavitev: " \o TableNameSI(m)
                          \o " programska_ponastavitev"

\* C23 witness: a line with three mnemonics has been reverse-translated
\* into Slovenian.
C23_Witness ==
  /\ Reversed("si")
  /\ source = "RESET: GOTO RESET"
  /\ text = "programska_ponastavitev: pojdi_na_naslov programska_ponastavitev"

-----------------------------------------------------------------------------
(* The forward command line: main() of pic18_translator                    *)

\* a path at which there is no file
Missing == "<missing>"

InputFile == "prog.rasm"
OutputFile == "out.asm"

\* what the input file may hold
CliContents ==
  {"", "; comment", "clear_f PORTB", "NOP\n", "pocisti_f PORTB\r\nNOP",
   "move_literal_to_w 0x05\nmove_w_to_f PORTB\n", LongS \o "et_f PORTB"}

\* the lines print_instruction_reference writes
Reference == "<instruction reference>"

\* args = parser.parse_args(): the process is started with a command line,
\* in a directory where the input file has some content or does not exist
CliInit ==
  /\ source = ""
  /\ text = ""
  /\ ops = << >>
  /\ setorder = "insertion"
  /\ globals = PROCESS_GLOBALS
  /\ calls = << >>
  /\ ide = IdeOff
  /\ cli \in {[pc |-> "main",
               args |-> [ref |-> r, input |-> i, output |-> o],
               files |-> [f \in {InputFile, OutputFile} |->
                            IF f = InputFile THEN c ELSE Missing],
               stdout |-> << >>, closed |-> FALSE, events |-> << >>] :
                r \in BOOLEAN, i \in {None, InputFile}, o \in {None, OutputFile},
                c \in CliContents \cup {Missing}}

\* if args.ref or args.input is None: print_instruction_reference(), and
\* return if args.input is None.  The reference is written through a
\* TextIOWrapper over sys.stdout.buffer that is dropped on return; its
\* finaliser closes the buffer, at once under reference counting and at
\* some later collection otherwise.
MainReference ==
  /\ cli.pc = "main"
  /\ IF cli.args.ref \/ cli.args.input = None
       THEN \E closed \in BOOLEAN :
              cli' = [cli EXCEPT
                        !.stdout = Append(@, Reference),
                        !.events = Append(@, <<"reference">>),
                        !.closed = cli.args.input # None /\ closed,
                        !.pc = IF cli.args.input = None THEN "returned" ELSE "open"]
       ELSE cli' = [cli EXCEPT !.pc = "open"]
  /\ UNCHANGED <<source, text, ops, setorder, globals, calls, ide>>

\* with open(args.input, "r", encoding="utf-8") as f: source = f.read()
MainRead ==
  /\ cli.pc = "open"
  /\ IF cli.files[cli.args.input] = Missing
       THEN /\ cli' = [cli EXCEPT !.pc = "FileNotFoundError"]
            /\ UNCHANGED source
       ELSE /\ source' = cli.files[cli.args.input]
            /\ cli' = [cli EXCEPT !.events = Append(@, <<"read", cli.args.input>>),
                                  !.pc = "translate"]
  /\ UNCHANGED <<text, ops, setorder, globals, calls, ide>>

\* result = translate(source)
MainTranslate ==
  /\ cli.pc = "translate"
  /\ text' = translate(source)
  /\ cli' = [cli EXCEPT !.events = Append(@, <<"translate">>),
                        !.pc = IF text' = KeyError THEN "KeyError" ELSE "write"]
  /\ UNCHANGED <<source, ops, setorder, globals, calls, ide>>

\* the result written to args.output and a note printed, or the result
\* printed; print raises ValueError when sys.stdout's buffer is closed
MainWrite ==
  /\ cli.pc = "write"
  /\ LET out == cli.args.output
         files == IF out # None THEN [cli.files EXCEPT ![out] = text \o "\n"]
                  ELSE cli.files
         events == IF out # None THEN Append(cli.events, <<"write", out>>)
                   ELSE cli.events
         printed == IF out # None THEN "Translated assembly written to: " \o out
                    ELSE text
     IN cli' = [cli EXCEPT
                  !.files = files,
                  !.events = events,
                  !.stdout = IF cli.closed THEN @ ELSE Append(@, printed),
                  !.pc = IF cli.closed THEN "ValueError" ELSE "returned"]
  /\ UNCHANGED <<source, text, ops, setorder, globals, calls, ide>>

CliNext ==
  \/ MainReference
  \/ MainRead
  \/ MainTranslate
  \/ MainWrite

CliSpec == CliInit /\ [][CliNext]_vars

\* C24 (as stated): started with --ref, the forward command line prints the
\* instruction reference and exits: it reads no input file, translates
\* nothing and writes no output file after the reference.
C24_RefPrintsAndExits ==
  cli.args.ref =>
    \A n \in DOMAIN cli.events : cli.events[n] = <<"reference">>

-----------------------------------------------------------------------------
(* Move instructions whose operands fit no assignment                      *)

\* C25: a line whose instruction is MOVLW, MOVWF or MOVFF with operands
\* that fit no assignment ("MOVFF TEMP", "MOVLW") is no error for
\* reverse_translate: the mnemonic is replaced by its readable name of the
\* locale and the rest of the line stays as written.
C25_MisfitMovesGetReadableName ==
  \A lang \in Langs :
    Reversed(lang) =>
      \A i \in Indents, p \in MisfitMoves :
        source = i \o p[1] \o p[2]
          => /\ text # KeyError
             /\ text = i \o NameOf(lang, p[1]) \o p[2]

\* C25 witness: "MOVFF TEMP", with one operand, has been reverse-translated.
C25_Witness ==
  /\ Reversed("en")
  /\ source = "MOVFF TEMP"
  /\ text = "move_f_to_f TEMP"

-----------------------------------------------------------------------------
(* Forward longest match                                                   *)

\* the entries of the merged forward table
AllEntries == {INSTRUCTION_MAP_ALL[k] : k \in DOMAIN INSTRUCTION_MAP_ALL}

\* the pairs <<a, b>> of entries of the merged forward table where the name
\* of a is a proper prefix of the name of b
PrefixPairs ==
  {p \in AllEntries \X AllEntries :
     p[1][1] # p[2][1] /\ StartsWith(p[2][1], p[1][1])}

\* for each such pair and operands: the line with b, its translation by
\* b's mnemonic, and a's mnemonic followed by the remainder of b
PrefixExpected ==
  {<<p[2][1] \o o, p[2][2] \o o,
     p[1][2] \o SubSeq(p[2][1], Len(p[1][1]) + 1, Len(p[2][1])) \o o>> :
     p \in PrefixPairs, o \in TableOperands}

\* C26: where a readable name a is a proper prefix of a readable name b
\* ("move_f" and "move_f_to_f"), a line with b as a token is translated to
\* b's mnemonic, never to a's mnemonic followed by the rest of b.
C26_LongerNameWins ==
  ops = << <<"translate">> >> =>
    \A e \in PrefixExpected :
      source = e[1] => text = e[2] /\ text # e[3]

\* C26 witness: "add_literal_to_fsr2_and_return", which starts with
\* "add_literal_to_fsr", has been translated to ADDULNK.
C26_Witness ==
  /\ ops = << <<"translate">> >>
  /\ source = "add_literal_to_fsr2_and_return TEMP, PORTA"
  /\ text = "ADDULNK TEMP, PORTA"
  /\ \E e \in PrefixExpected : e[1] = source /\ e[3] = "ADDFSR2_and_return TEMP, PORTA"

-----------------------------------------------------------------------------
(* A second pass of the same translator                                    *)

\* the text without its last character
DropLast(s) == SubSeq(s, 1, Len(s) - 1)

\* the same call made twice on the source
Twice(op) == ops = <<op, op>>

\* C27 (as stated): both translators are idempotent:
\* translate(translate(s)) = translate(s) and reverse_translate(
\* reverse_translate(s, L), L) = reverse_translate(s, L) for every text s.
C27_Idempotent ==
  /\ Twice(<<"translate">>) => text = translate(source)
  /\ \A lang \in Langs :
       Twice(<<"reverse_translate", lang>>)
         => text = reverse_translate(source, lang, setorder)

\* C27 (amended): a second pass replaces nothing: no text put in by a
\* replacement is matched again.  It gives the text of the first pass,
\* except that a first pass that ends in "\n" (the source has two or more
\* lines and the last one is empty) loses that final "\n" in the second.
C27_SecondPassReplacesNothing ==
  /\ Twice(<<"translate">>) =>
       LET once == translate(source)
       IN /\ text = IF EndsWith(once, "\n") THEN DropLast(once) ELSE once
          /\ EndsWith(once, "\n")
               <=> (Len(SplitLines(source)) >= 2
                      /\ SplitLines(source)[Len(SplitLines(source))] = "")
  /\ \A lang \in Langs :
       Twice(<<"reverse_translate", lang>>) =>
         LET once == reverse_translate(source, lang, setorder)
         IN text = IF EndsWith(once, "\n") THEN DropLast(once) ELSE once

\* C27 witness: a line and an empty line have gone through translate twice;
\* the first pass gave "CLRF x\n", the second "CLRF x".
C27_Witness ==
  /\ Twice(<<"translate">>)
  /\ source = "clear_f x\r\n\n"
  /\ translate(source) = "CLRF x\n"
  /\ text = "CLRF x"

-----------------------------------------------------------------------------
(* Round trip from the mnemonics                                           *)

\* C28: for every standard mnemonic m of the reverse tables, MOVLW, MOVWF
\* and MOVFF included, and both locales L, a line made of m in upper case
\* and operands in which no mnemonic or readable name occurs is restored by
\* translate(reverse_translate(line, L)).
C28_MnemonicRoundTrip ==
  \A lang \in Langs :
    ops = << <<"reverse_translate", lang>>, <<"translate">> >> =>
      \A m \in StdMnemonics, o \in TableOperands :
        source = m \o o => text = source

\* C28 witness: "MOVFF TEMP, PORTA" has gone through reverse_translate with
\* the Slovenian locale and translate, and is back.
C28_Witness ==
  /\ ops = << <<"reverse_translate", "si">>, <<"translate">> >>
  /\ source = "MOVFF TEMP, PORTA"
  /\ text = source

-----------------------------------------------------------------------------
(* The fallback of the reverse lookup                                      *)

\* the texts the reverse matcher matches on a line, none where the line is
\* returned before the substitution (blank, comment, directive)
SubstitutedOf(line, order) ==
  LET stripped == RStrip(line, {"\n", "\r"})
  IN IF \/ Strip(stripped) = ""
        \/ StartsWith(LStrip(stripped, Whitespace), ";")
        \/ first_token_is_directive(Split(stripped))
       THEN << >>
       ELSE MatchesOf(stripped, order)

\* the texts matched on the lines of the source
Substituted ==
  LET lines == SplitLines(source)
  IN UNION {LET ts == SubstitutedOf(lines[i], setorder)
            IN {ts[n] : n \in DOMAIN ts} : i \in DOMAIN lines}

\* the matched texts of the lines of the source for which rev_map.get finds
\* no key and returns the matched text
FallbacksTaken(lang) ==
  {t \in Substituted : ~DictHas(rev_map_of(lang), StrUpper(t))}

\* the merged reverse maps of the two locales have the same keys, and these
\* are the mnemonics the matcher is built from
SameReverseKeys ==
  /\ {REV_MAP_EN[i][1] : i \in DOMAIN REV_MAP_EN}
       = {REV_MAP_SI[i][1] : i \in DOMAIN REV_MAP_SI}
  /\ \A order \in SetOrders :
       {all_mnemonics(order)[i] : i \in DOMAIN all_mnemonics(order)}
         = {REV_MAP_EN[i][1] : i \in DOMAIN REV_MAP_EN}

\* C29 (as stated): the reverse matcher is built from the English tables
\* only, the merged reverse maps of the two locales have the same keys, and
\* so the fallback of _replace, which returns the matched text, is never
\* taken in reverse_translate, for "en" or for "si".
C29_FallbackNeverTaken ==
  /\ SameReverseKeys
  /\ \A lang \in Langs : Reversed(lang) => FallbacksTaken(lang) = {}

\* C29 (amended): the merged reverse maps of the two locales have the same
\* keys, those the matcher is built from, and the fallback is never taken
\* for a matched text in ASCII, in whatever case.  It is taken exactly for
\* the matched texts in which KELVIN SIGN stands for K: the matcher folds
\* it to "k", str.upper() leaves it, the lookup finds no key, and the text
\* stays in the output as written, under both locales.
C29_FallbackOnlyForKelvinSign ==
  /\ SameReverseKeys
  /\ \A lang \in Langs :
       Reversed(lang) =>
         \A t \in Substituted :
           /\ t \in FallbacksTaken(lang) <=> KelvinSign \in CharsOf(t)
           /\ t \in FallbacksTaken(lang) => Contains(text, t)

\* C29 witness: "ADDULNK" written with KELVIN SIGN has been matched and is
\* still in the output of the Slovenian reverse translation.
C29_Witness ==
  /\ Reversed("si")
  /\ source = "ADDULN" \o KelvinSign
  /\ FallbacksTaken("si") = {source}
  /\ text = source

-----------------------------------------------------------------------------
(* The build handlers of the IDE                                           *)

\* the file of the current editor: none open or unsaved, or a saved file
EditorFiles == {None, "prog.rasm", "prog.asm", "notes.txt"}

\* self._prog_type as read from the settings
ProgTypes == {"none", "pk2cmd", "ipecmd", "custom"}

\* how a subprocess.run ends: an exit code, or an exception
RunOutcomes == {"0", "1", "exception"}

\* the window is up with a file in the current tab; a .hex of an earlier
\* build may lie next to it
IdeInit ==
  /\ source = ""
  /\ text = ""
  /\ ops = << >>
  /\ setorder = "insertion"
  /\ globals = PROCESS_GLOBALS
  /\ calls = << >>
  /\ cli = CliOff
  /\ ide \in {[IdeOff EXCEPT !.pc = "idle", !.fp = f, !.hex = h, !.prog_type = t] :
                f \in EditorFiles, h \in BOOLEAN, t \in ProgTypes}

\* fp.lower().endswith(".rasm") / (".asm")
Suffix(fp) ==
  IF fp = None THEN None
  ELSE IF EndsWith(StrLower(fp), ".rasm") THEN "rasm"
  ELSE IF EndsWith(StrLower(fp), ".asm") THEN "asm"
  ELSE "other"

\* where a build handler goes first: it returns at once without a saved
\* file or with a file of another kind, goes to the translator for a .rasm
\* file and to the assembler for a .asm file
FirstStep(fp) ==
  CASE Suffix(fp) = "rasm" -> "translate"
    [] Suffix(fp) = "asm" -> "compile"
    [] OTHER -> "done"

\* _build_all_and_program is triggered, up to step 1
BuildAllAndProgram ==
  /\ ide.pc = "idle"
  /\ ide' = [ide EXCEPT !.handler = "_build_all_and_program",
                        !.pc = FirstStep(ide.fp)]
  /\ UNCHANGED <<source, text, ops, setorder, globals, calls, cli>>

\* _build_and_compile_current is triggered, up to step 1; a .asm file goes
\* to _compile_current, which compiles it
BuildAndCompileCurrent ==
  /\ ide.pc = "idle"
  /\ ide' = [ide EXCEPT !.handler = "_build_and_compile_current",
                        !.pc = FirstStep(ide.fp)]
  /\ UNCHANGED <<source, text, ops, setorder, globals, calls, cli>>

\* step 1: subprocess.run of the translator; any exit code but 0 and any
\* exception end the handler
StepTranslate ==
  /\ ide.pc = "translate"
  /\ \E outcome \in RunOutcomes :
       ide' = [ide EXCEPT
                 !.steps = Append(@, <<"translate", outcome>>),
                 !.pc = IF outcome = "0" THEN "compile" ELSE "done"]
  /\ UNCHANGED <<source, text, ops, setorder, globals, calls, cli>>

\* _build_all_and_program going on to the programmer whatever
\* _compile_asm_file has returned
AfterCompile_unchecked(handler, ok) ==
  IF handler = "_build_all_and_program" THEN "program" ELSE "done"

\* the step after _compile_asm_file has returned ok in each handler
AfterCompile(handler, ok) ==
  IF handler = "_build_all_and_program" /\ ok THEN "program" ELSE "done"

\* _compile_asm_file: without a configured assembler or a command for it
\* nothing is run and False is returned; else the assembler is run, and True
\* is returned for exit code 0, whether or not a .hex has been written
StepCompile ==
  /\ ide.pc = "compile"
  /\ \E configured \in BOOLEAN, outcome \in RunOutcomes, written \in BOOLEAN :
       LET ok == configured /\ outcome = "0"
       IN ide' = [ide EXCEPT
                    !.steps = IF configured THEN Append(@, <<"compile", outcome>>) ELSE @,
                    !.compiled = ok,
                    !.hex = IF configured /\ written THEN TRUE ELSE @,
                    !.pc = AfterCompile(ide.handler, ok)]
  /\ UNCHANGED <<source, text, ops, setorder, globals, calls, cli>>

\* step 3 of _build_all_and_program: the .hex must exist, _check_programmer
\* must pass (a programmer of type "none" may be configured in the dialog
\* it opens; the tool of a configured one must exist) and the type must be
\* pk2cmd or ipecmd; then _run_programmer_cmd runs the programmer
StepProgram ==
  /\ ide.pc = "program"
  /\ \E chosen \in ProgTypes, tool_exists \in BOOLEAN, outcome \in RunOutcomes :
       IF ~ide.hex
         THEN ide' = [ide EXCEPT !.pc = "done"]
         ELSE LET type == IF ide.prog_type = "none" THEN chosen ELSE ide.prog_type
                  passed == IF ide.prog_type = "none" THEN type # "none"
                            ELSE tool_exists
              IN ide' = [ide EXCEPT
                           !.prog_type = type,
                           !.checked = passed,
                           !.steps = IF passed /\ type \in {"pk2cmd", "ipecmd"}
                                       THEN Append(@, <<"program", outcome>>)
                                       ELSE @,
                           !.pc = "done"]
  /\ UNCHANGED <<source, text, ops, setorder, globals, calls, cli>>

IdeNext ==
  \/ BuildAllAndProgram
  \/ BuildAndCompileCurrent
  \/ StepTranslate
  \/ StepCompile
  \/ StepProgram

IdeSpec == IdeInit /\ [][IdeNext]_vars

\* the place of a step in the pipeline
Rank(step) ==
  CASE step = "translate" -> 1 [] step = "compile" -> 2 [] step = "program" -> 3

\* the outcomes of the runs of a step so far
OutcomesOf(step) ==
  {ide.steps[n][2] : n \in {k \in DOMAIN ide.steps : ide.steps[k][1] = step}}

\* C30: the build handlers run their steps in the order translate, compile,
\* program, each once at most, and a failure ends the handler: the
\* assembler is never run after a translator run that did not exit with 0,
\* and the programmer is run only when, for a .rasm file, the translator
\* exited with 0, _compile_asm_file returned True, the .hex exists and
\* _check_programmer passed.
C30_PipelineStopsAtFailure ==
  /\ \A i, j \in DOMAIN ide.steps :
       i < j => Rank(ide.steps[i][1]) < Rank(ide.steps[j][1])
  /\ OutcomesOf("translate") \ {"0"} # {}
       => OutcomesOf("compile") = {} /\ OutcomesOf("program") = {}
  /\ (Suffix(ide.fp) = "rasm" /\ OutcomesOf("compile") # {})
       => OutcomesOf("translate") = {"0"}
  /\ OutcomesOf("program") # {} =>
       /\ ide.handler = "_build_all_and_program"
       /\ Suffix(ide.fp) = "rasm" => OutcomesOf("translate") = {"0"}
       /\ OutcomesOf("compile") = {"0"}
       /\ ide.compiled
       /\ ide.hex
       /\ ide.checked

\* C30 witness: a .rasm file has gone through the three steps, each run
\* ended with exit code 0.
C30_Witness ==
  /\ ide.pc = "done"
  /\ ide.fp = "prog.rasm"
  /\ ide.steps = << <<"translate", "0">>, <<"compile", "0">>, <<"program", "0">> >>

=============================================================================
